---- MODULE Spec2Model ----
(***************************************************************************)
(* CivicBridge: the representative cache of backend/models/db.py           *)
(* (table representative_cache and the functions that read and write it),  *)
(* together with the chat_history table that cleanup_expired_data sweeps,   *)
(* the Geocodio lookup of backend/apis/geocodio_client.py, the enrichment   *)
(* loop of PolicyExplainer._fetch_representative_data (backend/apis/        *)
(* genai.py), the transactions of concurrent cache writers and of the      *)
(* evictions, the Congress client of backend/apis/congress_api.py and the  *)
(* chat_history functions behind the /api/chat route of backend/server.py. *)
(*                                                                         *)
(* Time is counted in days: datetime('now') is the variable now, and       *)
(* datetime('now', '+1 day') is now + TTL.  Python values that reach the   *)
(* database or come back from it are written as strings: "None" is None,   *)
(* "list()" is [], "list(b0)" is a one-element list; the JSON text stored  *)
(* in the activity columns is a different string ("null", "[]", ...).      *)
(***************************************************************************)
EXTENDS Integers, Sequences, FiniteSets, TLC

VARIABLES rows, chat, now, nops, pre, prechat, op, ret, log, upstream, enr, tx, geo,
          congress

vars == <<rows, chat, now, nops, pre, prechat, op, ret, log, upstream, enr, tx, geo,
          congress>>

\* ---------------------------------------------------------------- bounds
\* The clock stops at MaxTime days; a behaviour makes at most MaxOps calls.
MaxTime == 2
MaxOps == 3

\* ------------------------------------------------------------- constants
\* expires_at DEFAULT (datetime('now', '+1 day')), in days.
TTL == 1
\* DELETE FROM chat_history WHERE created_at < datetime('now', '-7 days').
ChatRetentionDays == 7

\* Python None / SQL NULL.
Nil == "None"
\* A key the dict does not have (rep.get(key, default) returns the default).
Absent == "<absent>"

\* ------------------------------------------------------------------ JSON
\* json.dumps of the Python values the model uses.
JsonDumps(v) ==
    CASE v = "None" -> "null"
      [] v = "list()" -> "[]"
      [] v = "list(b0)" -> "[\"b0\"]"
      [] v = "list(b1)" -> "[\"b1\"]"
      [] v = "list(v1)" -> "[\"v1\"]"

\* json.loads of the texts json.dumps wrote.
JsonLoads(t) ==
    CASE t = "null" -> "None"
      [] t = "[]" -> "list()"
      [] t = "[\"b0\"]" -> "list(b0)"
      [] t = "[\"b1\"]" -> "list(b1)"
      [] t = "[\"v1\"]" -> "list(v1)"

\* Python truthiness of a string-or-None value.
Falsy(v) == v \in {Nil, ""}

\* rep.get(key, []) for the activity keys.
GetOrEmptyList(v) == IF v = Absent THEN "list()" ELSE v

\* ---------------------------------------------------------------- inputs
ZipCodes == {"12601", "06516"}

NoSocial == [isdict |-> FALSE, twitter |-> Nil, facebook |-> Nil, youtube |-> Nil]

\* A representative dict as the callers build it; absent keys read as None.
RepDict(bio, name, chamber, district, seniority, twitter, social, bills) ==
    [bioguide_id |-> bio, name |-> name, party |-> "Democrat", chamber |-> chamber,
     district |-> district, state |-> "NY", seniority |-> seniority,
     phone |-> "202-225-0000", address |-> "Washington DC", website |-> Nil,
     contact_form |-> Nil, twitter |-> twitter, social |-> social,
     photo_url |-> Nil, recent_bills |-> bills, recent_votes |-> Absent]

\* The sample data of db.py's self-test.
RepRyan ==
    RepDict("R000579", "Patrick Ryan", "Representative", "18", Nil, "RepPatRyanNY",
            NoSocial, "list(b0)")
SenSchumer ==
    RepDict("S000148", "Charles Schumer", "Senator", Nil, "senior", "SenSchumer",
            NoSocial, Absent)
SenGillibrand ==
    RepDict("G000555", "Kirsten Gillibrand", "Senator", Nil, "junior", Nil,
            [isdict |-> TRUE, twitter |-> "GillibrandNY", facebook |-> "fb", youtube |-> Nil],
            Absent)
\* A second dict for bioguide_id S000148: a senator with no seniority given.
SenUnspecified ==
    RepDict("S000148", "Chuck Schumer", "Senator", Nil, Nil, Nil, NoSocial, Absent)
\* The geocoding client's fallback chamber.
Legislator ==
    RepDict("L000001", "Some Legislator", "Legislator", "18", Nil, Nil, NoSocial, Absent)
\* A dict without a bioguide_id.
NoBioguide ==
    RepDict(Nil, "No Id", "Senator", Nil, Nil, Nil, NoSocial, Absent)

\* Dicts without a name and without a state.
NoName == [SenGillibrand EXCEPT !.name = Nil]
NoState == [Legislator EXCEPT !.state = Nil]

RepLists ==
    { <<>>,
      <<RepRyan, SenSchumer, SenGillibrand>>,
      <<Legislator, RepRyan, SenSchumer>>,
      <<SenSchumer, SenGillibrand, SenUnspecified>>,
      <<RepRyan, NoBioguide>>,
      <<SenSchumer, NoName>>,
      <<NoState>> }

BioguideIds == {"R000579", "S000148", "G000555", "L000001", "X000000"}

\* The (bills, votes) arguments of update_representative_congress_data.
ActivityArgs == { <<"list(b1)", "list(v1)">> }

\* ------------------------------------------------------- the cache table
\* A value bound to the TEXT column district: an integer is stored as its
\* decimal text, NULL stays NULL, text stays as it is.
SqlText(v) == IF v = "int(18)" THEN "18" ELSE v

\* The row INSERT OR REPLACE builds from one dict at time t.
NewRow(z, rep, t) ==
    [zip_code |-> z,
     bioguide_id |-> rep.bioguide_id,
     name |-> rep.name,
     party |-> rep.party,
     chamber |-> rep.chamber,
     district |-> SqlText(rep.district),
     state |-> rep.state,
     seniority |-> rep.seniority,
     phone |-> rep.phone,
     office_address |-> rep.address,
     website |-> rep.website,
     contact_form |-> rep.contact_form,
     twitter |-> IF Falsy(rep.twitter)
                 THEN (IF rep.social.isdict THEN rep.social.twitter ELSE Nil)
                 ELSE rep.twitter,
     facebook |-> IF rep.social.isdict THEN rep.social.facebook ELSE Nil,
     youtube |-> IF rep.social.isdict THEN rep.social.youtube ELSE Nil,
     photo_url |-> rep.photo_url,
     recent_bills |-> JsonDumps(GetOrEmptyList(rep.recent_bills)),
     recent_votes |-> JsonDumps(GetOrEmptyList(rep.recent_votes)),
     created_at |-> t,
     expires_at |-> t + TTL]

\* zip_code, bioguide_id, name and state are NOT NULL columns.
NotNullOk(row) ==
    /\ row.zip_code # Nil
    /\ row.bioguide_id # Nil
    /\ row.name # Nil
    /\ row.state # Nil

\* UNIQUE(zip_code, bioguide_id).
SameKey(r, row) == r.zip_code = row.zip_code /\ r.bioguide_id = row.bioguide_id

\* INSERT without OR REPLACE on a table without the unique index.
InsertPlain(tbl, row) == tbl \cup {row}

\* INSERT OR REPLACE: the row that holds the key is deleted, the new one inserted.
InsertOrReplace(tbl, row) == {r \in tbl : ~SameKey(r, row)} \cup {row}

\* Keeps the rows of the ZIP.
DeleteZipNothing(tbl, z) == tbl

\* DELETE FROM representative_cache WHERE zip_code = ?
DeleteZip(tbl, z) == {r \in tbl : r.zip_code # z}

\* The for loop of cache_representatives over reps[i..], inside the transaction.
RECURSIVE InsertAll(_, _, _, _, _)
InsertAll(tbl, z, reps, i, t) ==
    IF i > Len(reps) THEN tbl
    ELSE InsertAll(InsertOrReplace(tbl, NewRow(z, reps[i], t)), z, reps, i + 1, t)

\* An INSERT of the loop raises IntegrityError.
ConstraintFails(z, reps, t) ==
    \E i \in 1..Len(reps) : ~NotNullOk(NewRow(z, reps[i], t))

\* ------------------------------------------------------- results and log
NoneRet == [kind |-> "None", val |-> <<>>]
NoLog == [msg |-> "", n |-> 0, m |-> 0]
ErrorLog == [msg |-> "error", n |-> 0, m |-> 0]

\* The exception leaves the handler.
Propagated(r) == [kind |-> "raise", val |-> <<>>]

\* What a handler's except clause hands back: every handler catches Exception.
Caught(r) == r

\* What Geocodio answers to a lookup: kind is "ok" (a result with a
\* congressional district: its state, its district_number and its
\* current_legislators), "noresults", "nodistricts", or "transport" (the
\* request raises).
GeoResponse(kind, legs) ==
    [kind |-> kind, state |-> "NY", number |-> "int(18)", legs |-> legs]

\* Geocodio cannot be reached.
Unreachable == GeoResponse("transport", <<>>)

\* No upstream request has been made by the call.
NoCalls == <<>>

\* No _fetch_representative_data call is running.
IdleEnr == [pc |-> "idle", reps |-> <<>>, i |-> 0, out |-> <<>>, inflight |-> {}]

\* The connections that may run cache_representatives at the same time.
Writers == {"w1", "w2"}

\* A connection outside cache_representatives.
IdleTx == [pc |-> "idle", zip |-> Nil, recs |-> <<>>, i |-> 0, old |-> {},
           deleted |-> {}, inserted |-> {}, ok |-> FALSE, at |-> 0,
           chat_new |-> <<>>, t_reps |-> 0, t_chat |-> 0]

TypeOK ==
    /\ now \in 0..MaxTime
    /\ nops \in 0..MaxOps
    /\ \A r \in rows : r.zip_code \in ZipCodes /\ r.created_at \in 0..MaxTime
    /\ \A i \in 1..Len(chat) : chat[i].created_at <= now

\* The Congress API answers nothing: every request raises RequestException.
Offline ==
    [sponsored |-> [kind |-> "RequestException", items |-> <<>>],
     cosponsored |-> [kind |-> "RequestException", items |-> <<>>],
     bills |-> [kind |-> "RequestException", items |-> <<>>]]

\* The state after construction, with the tables tbl and c on disk, g the
\* answer Geocodio will give and k the answers of the Congress API.
Boot(tbl, c, g, k) ==
    /\ rows = tbl
    /\ chat = c
    /\ now = 0
    /\ nops = 0
    /\ pre = tbl
    /\ prechat = c
    /\ op = [name |-> "init", zip |-> Nil, bio |-> Nil, ok |-> TRUE, recs |-> <<>>,
             bills |-> Nil, votes |-> Nil, after |-> -1]
    /\ ret = NoneRet
    /\ log = NoLog
    /\ upstream = NoCalls
    /\ enr = IdleEnr
    /\ tx = [w \in Writers |-> IdleTx]
    /\ geo = g
    /\ congress = k

\* The state after construction with an empty chat_history table.
Start(tbl, g) == Boot(tbl, <<>>, g, Offline)

\* create_tables() on a new database file.
Init == Start({}, Unreachable)

\* The number of rows the call before this one deleted, when that call was a
\* cleanup_expired_representatives that succeeded; -1 otherwise.
AfterEviction == IF op.name = "evict" /\ op.ok THEN log.n ELSE -1

\* One call is made: the call counter, the table as the call found it, and the
\* call's name and arguments.
Called(name, z, b, ok, recs, bills, votes) ==
    /\ nops < MaxOps
    /\ nops' = nops + 1
    /\ pre' = rows
    /\ prechat' = chat
    /\ op' = [name |-> name, zip |-> z, bio |-> b, ok |-> ok, recs |-> recs,
              bills |-> bills, votes |-> votes, after |-> AfterEviction]

\* A call of a db.py function: it makes no upstream request, and it runs on a
\* connection of its own.
Call(name, z, b, ok, recs, bills, votes) ==
    /\ Called(name, z, b, ok, recs, bills, votes)
    /\ upstream' = NoCalls
    /\ UNCHANGED <<enr, tx, geo, congress>>

\* The clock advances by a day; nothing is called.
Tick ==
    /\ now < MaxTime
    /\ now' = now + 1
    /\ pre' = rows
    /\ prechat' = chat
    /\ op' = [name |-> "tick", zip |-> Nil, bio |-> Nil, ok |-> TRUE, recs |-> <<>>,
              bills |-> Nil, votes |-> Nil, after |-> -1]
    /\ ret' = NoneRet
    /\ log' = NoLog
    /\ UNCHANGED <<rows, chat, nops, upstream, enr, tx, geo, congress>>

\* A put whose DELETE is committed before an INSERT raises.
cache_representatives_delete_committed(z, reps, io) ==
    LET ok == ~io /\ ~ConstraintFails(z, reps, now) IN
    /\ Call("put", z, Nil, ok, reps, Nil, Nil)
    /\ rows' = IF ok THEN InsertAll(DeleteZip(rows, z), z, reps, 1, now)
               ELSE IF io THEN rows ELSE DeleteZip(rows, z)
    /\ log' = IF ok THEN [msg |-> "cached", n |-> Len(reps), m |-> 0] ELSE ErrorLog
    /\ ret' = IF ok THEN NoneRet ELSE Caught(NoneRet)
    /\ UNCHANGED <<chat, now>>

\* cache_representatives(zip_code, representatives); io is a storage error.
\* The DELETE and the INSERTs are one transaction, rolled back when one raises.
cache_representatives(z, reps, io) ==
    LET ok == ~io /\ ~ConstraintFails(z, reps, now) IN
    /\ Call("put", z, Nil, ok, reps, Nil, Nil)
    /\ rows' = IF ok THEN InsertAll(DeleteZip(rows, z), z, reps, 1, now) ELSE rows
    /\ log' = IF ok THEN [msg |-> "cached", n |-> Len(reps), m |-> 0] ELSE ErrorLog
    /\ ret' = IF ok THEN NoneRet ELSE Caught(NoneRet)
    /\ UNCHANGED <<chat, now>>

\* ------------------------------------------------------------------ reads
\* expires_at >= datetime('now').
VisibleAtBoundary(r, t) == r.expires_at >= t

\* expires_at > datetime('now').
Visible(r, t) == r.expires_at > t

\* CASE chamber WHEN 'Representative' THEN 1 WHEN 'Senator' THEN 2 END: a CASE
\* without ELSE yields NULL, and NULL sorts before every number (0 here).
ChamberRank(c) ==
    CASE c = "Representative" -> 1
      [] c = "Senator" -> 2
      [] OTHER -> 0

\* CASE seniority WHEN 'senior' THEN 1 WHEN 'junior' THEN 2 ELSE 3 END.
SeniorityRank(s) ==
    CASE s = "senior" -> 1
      [] s = "junior" -> 2
      [] OTHER -> 3

\* ORDER BY the two CASE expressions.
OrderLE(a, b) ==
    \/ ChamberRank(a.chamber) < ChamberRank(b.chamber)
    \/ /\ ChamberRank(a.chamber) = ChamberRank(b.chamber)
       /\ SeniorityRank(a.seniority) <= SeniorityRank(b.seniority)

\* The rows the SELECT's WHERE clause keeps.
Selected(tbl, z, t) == {r \in tbl : r.zip_code = z /\ Visible(r, t)}

\* The orders the SELECT may return them in: rows with equal keys in any order.
Ordered(S) ==
    {s \in [1..Cardinality(S) -> S] :
        /\ \A i, j \in 1..Cardinality(S) : i # j => s[i] # s[j]
        /\ \A i, j \in 1..Cardinality(S) : i < j => OrderLE(s[i], s[j])}

\* json.loads(row[15]) if row[15] else [].
LoadActivity(text) == IF Falsy(text) THEN "list()" ELSE JsonLoads(text)

\* The dict get_cached_representatives builds from one row.
RepOfRow(r) ==
    [bioguide_id |-> r.bioguide_id, name |-> r.name, party |-> r.party,
     chamber |-> r.chamber, district |-> r.district, state |-> r.state,
     seniority |-> r.seniority, phone |-> r.phone,
     office_address |-> r.office_address, website |-> r.website,
     contact_form |-> r.contact_form, twitter |-> r.twitter,
     facebook |-> r.facebook, youtube |-> r.youtube, photo_url |-> r.photo_url,
     recent_bills |-> LoadActivity(r.recent_bills),
     recent_votes |-> LoadActivity(r.recent_votes),
     cached_at |-> r.created_at, source |-> "cache"]

\* The value get_cached_representatives returns for the fetched rows s.
CachedResult(s) ==
    IF Len(s) = 0 THEN NoneRet
    ELSE [kind |-> "list", val |-> [i \in 1..Len(s) |-> RepOfRow(s[i])]]

\* get_cached_representatives(zip_code).
get_cached_representatives(z, io) ==
    \E s \in Ordered(Selected(rows, z, now)) :
        /\ Call("get", z, Nil, ~io, <<>>, Nil, Nil)
        /\ ret' = IF io THEN Caught(NoneRet) ELSE CachedResult(s)
        /\ log' = IF io THEN ErrorLog
                  ELSE IF Len(s) = 0 THEN NoLog
                  ELSE [msg |-> "retrieved", n |-> Len(s), m |-> 0]
        /\ UNCHANGED <<rows, chat, now>>

\* The list comprehension [rep for rep in all_reps if rep['chamber'] == c].
OfChamber(reps, c) == SelectSeq(reps, LAMBDA rep : rep.chamber = c)

\* The dict get_representatives_by_type builds from get's result.
Grouped(r) ==
    IF r.kind # "list"
    THEN [kind |-> "groups", val |-> [senators |-> <<>>, representative |-> <<>>]]
    ELSE [kind |-> "groups",
          val |-> [senators |-> OfChamber(r.val, "Senator"),
                   representative |-> OfChamber(r.val, "Representative")]]

\* get_representatives_by_type(zip_code): get_cached_representatives, then grouped.
get_representatives_by_type(z, io) ==
    \E s \in Ordered(Selected(rows, z, now)) :
        /\ Call("grouped", z, Nil, ~io, <<>>, Nil, Nil)
        /\ ret' = Grouped(IF io THEN Caught(NoneRet) ELSE CachedResult(s))
        /\ log' = IF io THEN ErrorLog
                  ELSE IF Len(s) = 0 THEN NoLog
                  ELSE [msg |-> "retrieved", n |-> Len(s), m |-> 0]
        /\ UNCHANGED <<rows, chat, now>>

\* ---------------------------------------------------------------- refresh
\* An UPDATE that also rewrites created_at.
UpdatedRowTouchingCreated(r, bills, votes, t) ==
    [r EXCEPT !.recent_bills = JsonDumps(bills), !.recent_votes = JsonDumps(votes),
              !.expires_at = t + TTL, !.created_at = t]

\* An UPDATE that sets expires_at = datetime('now').
UpdatedRowWithoutTTL(r, bills, votes, t) ==
    [r EXCEPT !.recent_bills = JsonDumps(bills), !.recent_votes = JsonDumps(votes),
              !.expires_at = t]

\* SET recent_bills = ?, recent_votes = ?, expires_at = datetime('now', '+1 day').
UpdatedRow(r, bills, votes, t) ==
    [r EXCEPT !.recent_bills = JsonDumps(bills), !.recent_votes = JsonDumps(votes),
              !.expires_at = t + TTL]

\* WHERE bioguide_id = ?
MatchesBioguideOnly(r, z, b) == r.bioguide_id = b

\* WHERE zip_code = ?
MatchesZipOnly(r, z, b) == r.zip_code = z

\* WHERE zip_code = ? AND bioguide_id = ?
Matches(r, z, b) == r.zip_code = z /\ r.bioguide_id = b

\* update_representative_congress_data(zip_code, bioguide_id, bills, votes).
update_representative_congress_data(z, b, bills, votes, io) ==
    LET hit == {r \in rows : Matches(r, z, b)} IN
    /\ Call("refresh", z, b, ~io, <<>>, bills, votes)
    /\ rows' = IF io THEN rows
               ELSE (rows \ hit) \cup {UpdatedRow(r, bills, votes, now) : r \in hit}
    /\ log' = IF io THEN ErrorLog
              ELSE IF Cardinality(hit) > 0 THEN [msg |-> "updated", n |-> 0, m |-> 0]
              ELSE [msg |-> "not found", n |-> 0, m |-> 0]
    /\ ret' = IF io THEN Caught(NoneRet) ELSE NoneRet
    /\ UNCHANGED <<chat, now>>

\* --------------------------------------------------------------- eviction
\* expires_at <= datetime('now').
ExpiredAtBoundary(r, t) == r.expires_at <= t

\* expires_at < datetime('now').
Expired(r, t) == r.expires_at < t

\* A DELETE that stops after the first expired row.
DeleteOneExpired(tbl, t) ==
    IF \E r \in tbl : Expired(r, t)
    THEN tbl \ {CHOOSE r \in tbl : Expired(r, t)}
    ELSE tbl

\* DELETE ... WHERE expires_at > datetime('now').
DeleteUnexpired(tbl, t) == {r \in tbl : ~(r.expires_at > t)}

\* DELETE FROM representative_cache WHERE expires_at < datetime('now').
DeleteExpired(tbl, t) == {r \in tbl : ~Expired(r, t)}

\* cleanup_expired_representatives(): the count is printed when positive; the
\* function has no return statement.
cleanup_expired_representatives(io) ==
    LET kept == DeleteExpired(rows, now)
        deleted_count == Cardinality(rows) - Cardinality(kept) IN
    /\ Call("evict", Nil, Nil, ~io, <<>>, Nil, Nil)
    /\ rows' = IF io THEN rows ELSE kept
    /\ log' = IF io THEN ErrorLog
              ELSE IF deleted_count > 0 THEN [msg |-> "cleaned", n |-> deleted_count, m |-> 0]
              ELSE NoLog
    /\ ret' = IF io THEN Caught(NoneRet) ELSE NoneRet
    /\ UNCHANGED <<chat, now>>

\* DELETE FROM chat_history WHERE created_at <= datetime('now', '-7 days').
DeleteOldChatInclusive(c, t) ==
    SelectSeq(c, LAMBDA x : ~(x.created_at <= t - ChatRetentionDays))

\* DELETE FROM chat_history WHERE created_at < datetime('now', '-7 days').
DeleteOldChat(c, t) == SelectSeq(c, LAMBDA x : ~(x.created_at < t - ChatRetentionDays))

\* cleanup_expired_data(): both DELETEs in one transaction; the counts are printed.
cleanup_expired_data(io) ==
    LET kept == DeleteExpired(rows, now)
        keptChat == DeleteOldChat(chat, now) IN
    /\ Call("sweep", Nil, Nil, ~io, <<>>, Nil, Nil)
    /\ rows' = IF io THEN rows ELSE kept
    /\ chat' = IF io THEN chat ELSE keptChat
    /\ log' = IF io THEN ErrorLog
              ELSE [msg |-> "cleanup", n |-> Cardinality(rows) - Cardinality(kept),
                    m |-> Len(chat) - Len(keptChat)]
    /\ ret' = IF io THEN Caught(NoneRet) ELSE NoneRet
    /\ UNCHANGED now

\* ------------------------------------------------------------------ stats
\* The dict get_cache_stats returns on an error: {}.
EmptyDict == [kind |-> "dict", val |-> <<>>]

\* Counts that leave out the expiry filter of the chamber queries.
StatsCountingExpired(tbl, t) ==
    [kind |-> "stats",
     val |-> [total_representatives |-> Cardinality(tbl),
              unique_zip_codes |-> Cardinality({r.zip_code : r \in tbl}),
              active_entries |-> Cardinality({r \in tbl : Visible(r, t)}),
              senators |-> Cardinality({r \in tbl : r.chamber = "Senator"}),
              house_representatives |->
                  Cardinality({r \in tbl : r.chamber = "Representative"})]]

\* The four SELECT COUNT queries of get_cache_stats.
StatsOf(tbl, t) ==
    [kind |-> "stats",
     val |-> [total_representatives |-> Cardinality(tbl),
              unique_zip_codes |-> Cardinality({r.zip_code : r \in tbl}),
              active_entries |-> Cardinality({r \in tbl : Visible(r, t)}),
              senators |-> Cardinality({r \in tbl : Visible(r, t) /\ r.chamber = "Senator"}),
              house_representatives |->
                  Cardinality({r \in tbl : Visible(r, t) /\ r.chamber = "Representative"})]]

\* get_cache_stats().
get_cache_stats(io) ==
    /\ Call("stats", Nil, Nil, ~io, <<>>, Nil, Nil)
    /\ ret' = IF io THEN Caught(EmptyDict) ELSE StatsOf(rows, now)
    /\ log' = IF io THEN ErrorLog ELSE NoLog
    /\ UNCHANGED <<rows, chat, now>>

\* ---------------------------------------------------------- specification
Next ==
    \/ Tick
    \/ \E z \in ZipCodes, reps \in RepLists, io \in BOOLEAN : cache_representatives(z, reps, io)
    \/ \E z \in ZipCodes, io \in BOOLEAN : get_cached_representatives(z, io)
    \/ \E z \in ZipCodes, io \in BOOLEAN : get_representatives_by_type(z, io)
    \/ \E z \in ZipCodes, b \in BioguideIds, a \in ActivityArgs, io \in BOOLEAN :
           update_representative_congress_data(z, b, a[1], a[2], io)
    \/ \E io \in BOOLEAN : cleanup_expired_representatives(io)
    \/ \E io \in BOOLEAN : cleanup_expired_data(io)
    \/ \E io \in BOOLEAN : get_cache_stats(io)

Spec == Init /\ [][Next]_vars

\* ----------------------------------------------------------------- claims
\* The rows of one ZIP, and the bioguide ids of a set of rows or a list of dicts.
RowsOfZip(tbl, z) == {r \in tbl : r.zip_code = z}
BiosOfRows(S) == {r.bioguide_id : r \in S}
BiosOfList(l) == {l[i].bioguide_id : i \in 1..Len(l)}
\* The bioguide ids a get returned (none when it returned None).
BiosReturned == IF ret.kind = "list" THEN {ret.val[i].bioguide_id : i \in 1..Len(ret.val)} ELSE {}

\* C1: the table never holds two rows with the same (zip_code, bioguide_id), and
\* a get returns at most one record per bioguide_id, whatever lists were put,
\* lists that repeat a bioguide_id included.
C1_Uniqueness ==
    /\ \A r1, r2 \in rows :
           (r1.zip_code = r2.zip_code /\ r1.bioguide_id = r2.bioguide_id) => r1 = r2
    /\ (op.name = "get" /\ ret.kind = "list") =>
           \A i, j \in 1..Len(ret.val) :
               ret.val[i].bioguide_id = ret.val[j].bioguide_id => i = j

\* A put whose list repeats a bioguide_id has succeeded and left a row for it.
C1_Witness ==
    /\ op.name = "put" /\ op.ok
    /\ \E i, j \in 1..Len(op.recs) :
           /\ i # j
           /\ op.recs[i].bioguide_id = op.recs[j].bioguide_id
           /\ \E r \in rows : r.zip_code = op.zip /\ r.bioguide_id = op.recs[i].bioguide_id

\* C2: after a successful put(zip, list) the rows of zip are exactly rows built
\* from the list at this time, one per bioguide_id of the list, all of them
\* visible; no row of zip from before the put is left, expired or not.
C2_ReplaceSemantics ==
    (op.name = "put" /\ op.ok) =>
        /\ BiosOfRows(RowsOfZip(rows, op.zip)) = BiosOfList(op.recs)
        /\ \A r \in RowsOfZip(rows, op.zip) :
               /\ r.created_at = now
               /\ r.expires_at > now
               /\ \E i \in 1..Len(op.recs) :
                      r.bioguide_id = op.recs[i].bioguide_id /\ r.name = op.recs[i].name
        /\ \A r \in RowsOfZip(pre, op.zip) :
               r.bioguide_id \notin BiosOfList(op.recs) =>
                   ~\E u \in rows : u.zip_code = op.zip /\ u.bioguide_id = r.bioguide_id

\* A non-empty put has replaced two rows of the ZIP whose TTL had not elapsed and
\* whose bioguide ids are not in the new list.
C2_Witness ==
    /\ op.name = "put" /\ op.ok /\ Len(op.recs) > 0
    /\ \E a, b \in RowsOfZip(pre, op.zip) :
           /\ a.bioguide_id # b.bioguide_id
           /\ a.expires_at > now /\ b.expires_at > now
           /\ a.bioguide_id \notin BiosOfList(op.recs)
           /\ b.bioguide_id \notin BiosOfList(op.recs)

\* C3: a get returns exactly the rows of its ZIP with expires_at > now: a row
\* whose expiry is the one its write gave it (created_at + TTL) is returned at
\* every time before created_at + TTL and at no time from created_at + TTL on;
\* a row that is not returned is still stored, and get_cache_stats counts it in
\* the total but not among the active rows; only a write or an eviction removes
\* a row (reads and the passing of time do not).
C3_ExpiryBoundary ==
    /\ (op.name = "get" /\ op.ok) =>
           /\ BiosReturned = {r.bioguide_id : r \in {x \in rows : x.zip_code = op.zip /\ x.expires_at > now}}
           /\ \A r \in rows :
                  (r.zip_code = op.zip /\ r.expires_at = r.created_at + TTL) =>
                      ((r.bioguide_id \in BiosReturned) <=> (now < r.created_at + TTL))
    /\ (op.name = "stats" /\ op.ok) =>
           /\ ret.val.total_representatives = Cardinality(rows)
           /\ ret.val.active_entries = Cardinality({r \in rows : r.expires_at > now})
    /\ (op.name \in {"tick", "get", "grouped", "stats"}) => rows = pre

\* A get at the very time created_at + TTL: the row is stored and not returned.
C3_Witness ==
    /\ op.name = "get" /\ op.ok /\ ret.kind = "None"
    /\ \E r \in rows :
           /\ r.zip_code = op.zip
           /\ r.expires_at = r.created_at + TTL
           /\ now = r.created_at + TTL

\* C4 as the spec states it: every stored row has expires_at = created_at + TTL.
C4_ExpiresIsCreatedPlusTTL ==
    \A r \in rows : r.expires_at = r.created_at + TTL

\* C4, amended: a put writes its rows with expires_at = created_at + TTL, a
\* refresh sets the row's expires_at to (the time of the refresh) + TTL and
\* leaves created_at alone, so that every stored row has
\* created_at + TTL <= expires_at <= now + TTL, with the one TTL of 1 day.
C4_ExpiryFollowsLastWrite ==
    /\ TTL = 1
    /\ \A r \in rows : r.created_at + TTL <= r.expires_at /\ r.expires_at <= now + TTL
    /\ (op.name = "put" /\ op.ok) =>
           \A r \in RowsOfZip(rows, op.zip) :
               r.created_at = now /\ r.expires_at = r.created_at + TTL
    /\ (op.name = "refresh" /\ op.ok) =>
           \A r \in rows :
               IF r.zip_code = op.zip /\ r.bioguide_id = op.bio
               THEN /\ r.expires_at = now + TTL
                    /\ \E q \in pre : q.zip_code = r.zip_code /\ q.bioguide_id = r.bioguide_id
                                      /\ q.created_at = r.created_at
               ELSE r \in pre
    /\ (op.name \in {"evict", "sweep"}) => rows \subseteq pre

\* A refresh has hit a row written on an earlier day.
C4_Witness ==
    /\ op.name = "refresh" /\ op.ok
    /\ \E r \in rows :
           /\ r.zip_code = op.zip /\ r.bioguide_id = op.bio
           /\ r.created_at < now

\* The fields of a row an UPDATE of the activity may change.
SameButActivity(r, u) ==
    u = [r EXCEPT !.recent_bills = u.recent_bills, !.recent_votes = u.recent_votes,
                  !.expires_at = u.expires_at]

\* C5: a refresh changes recent_bills, recent_votes and expires_at (to now + TTL)
\* of the one row keyed (zip, bioguide_id) and nothing else in that row or in any
\* other row; with no such row, or on a storage error, the table is as it was;
\* in no case does an exception reach the caller.
C5_RefreshFrame ==
    (op.name = "refresh") =>
        LET hit == {r \in pre : r.zip_code = op.zip /\ r.bioguide_id = op.bio} IN
        /\ ret.kind = "None"
        /\ Cardinality(hit) <= 1
        /\ (hit = {} \/ ~op.ok) => rows = pre
        /\ op.ok =>
               /\ Cardinality(rows) = Cardinality(pre)
               /\ \A r \in pre \ hit : r \in rows
               /\ \A r \in hit : \E u \in rows :
                      /\ SameButActivity(r, u)
                      /\ u.recent_bills = JsonDumps(op.bills)
                      /\ u.recent_votes = JsonDumps(op.votes)
                      /\ u.expires_at = now + TTL

\* A refresh has hit a row written a day earlier, with other rows in the table.
C5_Witness ==
    /\ op.name = "refresh" /\ op.ok
    /\ \E r \in pre :
           /\ r.zip_code = op.zip /\ r.bioguide_id = op.bio
           /\ r.created_at < now
           /\ r.recent_bills # JsonDumps(op.bills)
    /\ \E r \in pre : ~(r.zip_code = op.zip /\ r.bioguide_id = op.bio)

\* A refresh of a (zip, bioguide_id) that is not cached.
C5_WitnessNoRow ==
    /\ op.name = "refresh" /\ op.ok /\ pre # {}
    /\ ~\E r \in pre : r.zip_code = op.zip /\ r.bioguide_id = op.bio

SeniorityOrder(s) == IF s = "senior" THEN 1 ELSE IF s = "junior" THEN 2 ELSE 3

\* C8: in the list a get returns no record of another chamber comes before a
\* Representative, and among Senators senior comes before junior before
\* unspecified seniority.
C8_GetOrder ==
    (op.name = "get" /\ ret.kind = "list") =>
        \A i, j \in 1..Len(ret.val) :
            i < j =>
                /\ ~(ret.val[j].chamber = "Representative" /\ ret.val[i].chamber # "Representative")
                /\ (ret.val[i].chamber = "Senator" /\ ret.val[j].chamber = "Senator") =>
                       SeniorityOrder(ret.val[i].seniority) <= SeniorityOrder(ret.val[j].seniority)

\* The part of C8 the code keeps: every Representative before every Senator, and
\* the Senators by seniority.
C8_RepresentativeBeforeSenator ==
    (op.name = "get" /\ ret.kind = "list") =>
        \A i, j \in 1..Len(ret.val) :
            i < j =>
                /\ ~(ret.val[j].chamber = "Representative" /\ ret.val[i].chamber = "Senator")
                /\ (ret.val[i].chamber = "Senator" /\ ret.val[j].chamber = "Senator") =>
                       SeniorityOrder(ret.val[i].seniority) <= SeniorityOrder(ret.val[j].seniority)

\* The records of a list.
Range(l) == {l[i] : i \in 1..Len(l)}

\* C9: the two groups of get_representatives_by_type hold the records a get of
\* the same ZIP returns: each of them in exactly one group, no other record, and
\* the senators in get's order (senior, junior, unspecified).
C9_GroupedPartitionsGet ==
    (op.name = "grouped" /\ op.ok) =>
        LET got == {RepOfRow(r) : r \in {x \in rows : x.zip_code = op.zip /\ x.expires_at > now}}
            sen == ret.val.senators
            rep == ret.val.representative
        IN  /\ \A g \in got : (g \in Range(sen)) # (g \in Range(rep))
            /\ Range(sen) \cup Range(rep) \subseteq got
            /\ \A i, j \in 1..Len(sen) :
                   i < j => SeniorityOrder(sen[i].seniority) <= SeniorityOrder(sen[j].seniority)

\* The part of C9 the code keeps: the groups hold get's Senators and
\* Representatives, each once, and nothing else.
C9_GroupsHoldSenatorsAndRepresentatives ==
    (op.name = "grouped" /\ op.ok) =>
        LET got == {RepOfRow(r) : r \in {x \in rows : x.zip_code = op.zip /\ x.expires_at > now}}
            sen == ret.val.senators
            rep == ret.val.representative
        IN  /\ Range(sen) = {g \in got : g.chamber = "Senator"}
            /\ Range(rep) = {g \in got : g.chamber = "Representative"}
            /\ Len(sen) = Cardinality(Range(sen)) /\ Len(rep) = Cardinality(Range(rep))

\* The calls of the cache.
CacheCalls == {"put", "get", "grouped", "refresh", "evict", "sweep", "stats"}

C10_WitnessAllExpired ==
    /\ op.name = "get" /\ op.ok /\ ret.kind = "None"
    /\ \E r \in rows : r.zip_code = op.zip

\* ================================================================ Geocodio
\* Python strings whose characters the code looks at are sequences of
\* one-character strings; a JSON value that may be missing carries a tag:
\* "absent" (no such key), "null", or "str" / "dict".
Str(chars) == [tag |-> "str", s |-> chars]
NullStr == [tag |-> "null", s |-> <<>>]
AbsentStr == [tag |-> "absent", s |-> <<>>]

\* The Python str of a sequence of characters.
RECURSIVE Join(_)
Join(chars) == IF chars = <<>> THEN "" ELSE Head(chars) \o Join(Tail(chars))

UpperLetters == <<"A", "B", "C", "D", "E", "F", "G", "H", "I", "J", "K", "L", "M",
                  "N", "O", "P", "Q", "R", "S", "T", "U", "V", "W", "X", "Y", "Z">>
LowerLetters == <<"a", "b", "c", "d", "e", "f", "g", "h", "i", "j", "k", "l", "m",
                  "n", "o", "p", "q", "r", "s", "t", "u", "v", "w", "x", "y", "z">>

\* str.lower().
Lower(chars) ==
    [i \in 1..Len(chars) |->
        IF \E k \in 1..Len(UpperLetters) : UpperLetters[k] = chars[i]
        THEN LowerLetters[CHOOSE k \in 1..Len(UpperLetters) : UpperLetters[k] = chars[i]]
        ELSE chars[i]]

\* sub in chars.
Contains(sub, chars) ==
    \E k \in 0..(Len(chars) - Len(sub)) : SubSeq(chars, k + 1, k + Len(sub)) = sub

\* str.strip(): leading and trailing blanks removed.
RECURSIVE Strip(_)
Strip(chars) ==
    IF chars = <<>> THEN chars
    ELSE IF Head(chars) = " " THEN Strip(Tail(chars))
    ELSE IF chars[Len(chars)] = " " THEN Strip(SubSeq(chars, 1, Len(chars) - 1))
    ELSE chars

\* str.isdigit(): at least one character, and all of them digits.
IsDigit(chars) ==
    /\ Len(chars) > 0
    /\ \A i \in 1..Len(chars) :
          chars[i] \in {"0", "1", "2", "3", "4", "5", "6", "7", "8", "9"}

\* The ZIP codes callers pass, well-formed or not.
ZipInputs == ZipCodes \cup {"", "1260", "1260a", "126011"}

\* The characters of a ZIP code string.
Chars(z) ==
    CASE z = "12601" -> <<"1", "2", "6", "0", "1">>
      [] z = "06516" -> <<"0", "6", "5", "1", "6">>
      [] z = "1260" -> <<"1", "2", "6", "0">>
      [] z = "1260a" -> <<"1", "2", "6", "0", "a">>
      [] z = "126011" -> <<"1", "2", "6", "0", "1", "1">>
      [] OTHER -> <<>>

\* ------------------------------------------------- the upstream payload
\* The JSON objects of one entry of current_legislators.
Bio(first, last) ==
    [tag |-> "dict", first_name |-> first, last_name |-> last,
     party |-> "Democrat", photo_url |-> Nil]
Contact ==
    [tag |-> "dict", phone |-> "202-225-0000", address |-> "Washington DC",
     url |-> "https://www.senate.gov", contact_form |-> Nil]
Social == [tag |-> "dict", twitter |-> "SenSchumer"]
References(b) == [tag |-> "dict", bioguide_id |-> b]

\* The {} that dict.get(key, {}) falls back to.
EmptyBio ==
    [tag |-> "dict", first_name |-> AbsentStr, last_name |-> AbsentStr,
     party |-> Absent, photo_url |-> Absent]
EmptyContact ==
    [tag |-> "dict", phone |-> Absent, address |-> Absent, url |-> Absent,
     contact_form |-> Absent]
EmptySocial == [tag |-> "dict", twitter |-> Absent]
EmptyReferences == [tag |-> "dict", bioguide_id |-> Absent]

\* The key holds null / the key is missing.
Null(obj) == [obj EXCEPT !.tag = "null"]
Missing(obj) == [obj EXCEPT !.tag = "absent"]

Payload(type, bio, contact, social, references) ==
    [type |-> type, bio |-> bio, contact |-> contact, social |-> social,
     references |-> references]

Chuck == Str(<<"C", "h", "u", "c", "k">>)
Schumer == Str(<<"S", "c", "h", "u", "m", "e", "r">>)
TypeSenator == Str(<<"s", "e", "n", "a", "t", "o", "r">>)
TypeRepresentative ==
    Str(<<"r", "e", "p", "r", "e", "s", "e", "n", "t", "a", "t", "i", "v", "e">>)

\* Three complete entries.
LegSchumer ==
    Payload(TypeSenator, Bio(Chuck, Schumer), Contact, Social, References("S000148"))
LegGillibrand ==
    Payload(TypeSenator,
            Bio(Str(<<"K", "i", "r", "s", "t", "e", "n">>),
                Str(<<"G", "i", "l", "l", "i", "b", "r", "a", "n", "d">>)),
            Contact, Social, References("G000555"))
LegRyan ==
    Payload(TypeRepresentative,
            Bio(Str(<<"P", "a", "t">>), Str(<<"R", "y", "a", "n">>)),
            Contact, Social, References("R000579"))

\* The values of "type": other spellings, other offices, null, missing.
TypeStrings ==
    { TypeSenator, TypeRepresentative,
      Str(<<"S", "e", "n", "a", "t", "o", "r">>),
      Str(<<"U", "S", " ", "R", "e", "p", "r", "e", "s", "e", "n", "t", "a", "t", "i", "v", "e">>),
      Str(<<"d", "e", "l", "e", "g", "a", "t", "e">>),
      Str(<<>>), NullStr, AbsentStr }

\* LegRyan under each value of "type".
TypeVariants == { [LegRyan EXCEPT !.type = t] : t \in TypeStrings }

\* LegSchumer with one field null or missing.
FieldVariants ==
    { [LegSchumer EXCEPT !.bio = Null(@)], [LegSchumer EXCEPT !.bio = Missing(@)],
      [LegSchumer EXCEPT !.bio.first_name = NullStr],
      [LegSchumer EXCEPT !.bio.first_name = AbsentStr],
      [LegSchumer EXCEPT !.bio.last_name = NullStr],
      [LegSchumer EXCEPT !.bio.last_name = AbsentStr],
      [LegSchumer EXCEPT !.contact = Null(@)], [LegSchumer EXCEPT !.contact = Missing(@)],
      [LegSchumer EXCEPT !.social = Null(@)], [LegSchumer EXCEPT !.social = Missing(@)],
      [LegSchumer EXCEPT !.references = Null(@)],
      [LegSchumer EXCEPT !.references = Missing(@)] }

Legislators == {LegSchumer, LegGillibrand, LegRyan} \cup TypeVariants \cup FieldVariants

\* The longest current_legislators list of the lookups that are enumerated.
MaxLegs == 2

\* The list l with v put in at position k.
InsertAt(l, k, v) == SubSeq(l, 1, k - 1) \o <<v>> \o SubSeq(l, k, Len(l))

\* The current_legislators lists that are enumerated: no entry, or complete
\* entries with one entry of Legislators anywhere among them.
LegislatorLists ==
    { <<>> } \cup
    UNION { { InsertAt(l, k, v) : k \in 1..(Len(l) + 1), v \in Legislators } :
            l \in UNION { [1..n -> {LegSchumer, LegGillibrand, LegRyan}] :
                            n \in 0..(MaxLegs - 1) } }

\* Every answer Geocodio may give to one lookup.
GeoResponses ==
    { GeoResponse(k, <<>>) : k \in {"transport", "noresults", "nodistricts"} }
    \cup { GeoResponse("ok", l) : l \in LegislatorLists }

\* ---------------------------------------------------------------- lookup
GeocodioError == [kind |-> "GeocodioError", val |-> <<>>]

\* lookup_zip_code(zip_code) when Geocodio answers g: the district_info dict,
\* or GeocodioError for a malformed ZIP (no request is made then), a failed
\* request, an empty result or a result without a congressional district.
lookup_zip_code(z, g) ==
    IF z = "" \/ ~IsDigit(Chars(z)) \/ Len(Chars(z)) # 5 THEN GeocodioError
    ELSE IF g.kind # "ok" THEN GeocodioError
    ELSE [kind |-> "dict",
          val |-> [state |-> g.state, number |-> g.number,
                   current_legislators |-> g.legs]]

\* lookup_zip_code sends a request.
LookupRequests(z) == ~(z = "" \/ ~IsDigit(Chars(z)) \/ Len(Chars(z)) # 5)

\* dict.get(key, {}) and dict.get(key, '') / dict.get(key).
GetObj(obj, empty) == IF obj.tag = "absent" THEN empty ELSE obj
GetStr(v) == IF v.tag = "absent" THEN Str(<<>>) ELSE v
GetOr(v, default) == IF v = Absent THEN default ELSE v

\* The text an f-string puts for a value.
Format(v) == IF v.tag = "null" THEN <<"N", "o", "n", "e">> ELSE v.s

\* The loop body raises AttributeError: .get or .lower is called on None.
AttributeError(legislator) ==
    \/ legislator.bio.tag = "null"
    \/ legislator.contact.tag = "null"
    \/ legislator.references.tag = "null"
    \/ legislator.type.tag = "null"
    \/ legislator.social.tag = "null"

\* role and district_num, a senator carrying the district too.
ClassifySenatorWithDistrict(title, number) ==
    IF Contains(TypeSenator.s, title)
    THEN [role |-> "Senator", district_num |-> number]
    ELSE IF Contains(TypeRepresentative.s, title)
    THEN [role |-> "Representative", district_num |-> number]
    ELSE [role |-> "Legislator", district_num |-> number]

\* role and district_num, the fallback without a district.
ClassifyFallbackNoDistrict(title, number) ==
    IF Contains(TypeSenator.s, title)
    THEN [role |-> "Senator", district_num |-> Nil]
    ELSE IF Contains(TypeRepresentative.s, title)
    THEN [role |-> "Representative", district_num |-> number]
    ELSE [role |-> "Legislator", district_num |-> Nil]

\* role and district_num from the lower-cased type string.
Classify(title, number) ==
    IF Contains(TypeSenator.s, title)
    THEN [role |-> "Senator", district_num |-> Nil]
    ELSE IF Contains(TypeRepresentative.s, title)
    THEN [role |-> "Representative", district_num |-> number]
    ELSE [role |-> "Legislator", district_num |-> number]

\* The rep_info dict of one legislator that raises nothing.
rep_info(legislator, district_info) ==
    LET bio == GetObj(legislator.bio, EmptyBio)
        contact == GetObj(legislator.contact, EmptyContact)
        references == GetObj(legislator.references, EmptyReferences)
        social == GetObj(legislator.social, EmptySocial)
        title == Lower(GetStr(legislator.type).s)
        class == Classify(title, district_info.number)
    IN [name |-> Join(Strip(Format(GetStr(bio.first_name)) \o <<" ">>
                            \o Format(GetStr(bio.last_name)))),
        party |-> GetOr(bio.party, ""),
        title |-> IF legislator.type.tag = "str" THEN Join(legislator.type.s) ELSE Nil,
        chamber |-> class.role,
        district |-> class.district_num,
        state |-> district_info.state,
        bioguide_id |-> GetOr(references.bioguide_id, Nil),
        phone |-> GetOr(contact.phone, Nil),
        address |-> GetOr(contact.address, Nil),
        website |-> GetOr(contact.url, Nil),
        contact_form |-> GetOr(contact.contact_form, Nil),
        twitter |-> GetOr(social.twitter, Nil),
        photo_url |-> GetOr(bio.photo_url, Nil)]

\* The for loop over current_legislators inside the try block: one entry that
\* raises ends the loop, and the except clause raises GeocodioError.
RepresentativesOf(info) ==
    IF \E i \in 1..Len(info.current_legislators) :
            AttributeError(info.current_legislators[i])
    THEN GeocodioError
    ELSE [kind |-> "list",
          val |-> [i \in 1..Len(info.current_legislators) |->
                      rep_info(info.current_legislators[i], info)]]

\* CivicBridgeGeocodioClient.get_representatives(zip_code) when Geocodio
\* answers g.
Representatives(z, g) ==
    IF lookup_zip_code(z, g).kind # "dict" THEN lookup_zip_code(z, g)
    ELSE RepresentativesOf(lookup_zip_code(z, g).val)

\* get_representatives(zip_code) of the Geocodio client is called.
get_representatives(z) ==
    LET r == Representatives(z, geo) IN
    /\ enr.pc = "idle"
    /\ Called("resolve", z, Nil, r.kind = "list", <<>>, Nil, Nil)
    /\ ret' = r
    /\ log' = IF r.kind = "list" THEN [msg |-> "found", n |-> Len(r.val), m |-> 0]
              ELSE ErrorLog
    /\ upstream' = IF LookupRequests(z)
                   THEN <<[call |-> "geo", arg |-> z, result |-> geo.kind]>>
                   ELSE NoCalls
    /\ UNCHANGED <<rows, chat, now, enr, tx, geo, congress>>

\* The dict cache_representatives reads a rep_info dict as: the keys it has
\* not got read as None, {} and [].
CacheInput(info) ==
    [bioguide_id |-> info.bioguide_id, name |-> info.name, party |-> info.party,
     chamber |-> info.chamber, district |-> info.district, state |-> info.state,
     seniority |-> Nil, phone |-> info.phone, address |-> info.address,
     website |-> info.website, contact_form |-> info.contact_form,
     twitter |-> info.twitter, social |-> NoSocial, photo_url |-> info.photo_url,
     recent_bills |-> Absent, recent_votes |-> Absent]

\* ============================================================== enrichment
\* for rep in reps[:3].
EnrichLimit == 3

\* reps[:].
WholeList(reps) == reps

\* reps[:3].
FirstThree(reps) ==
    SubSeq(reps, 1, IF Len(reps) < EnrichLimit THEN Len(reps) ELSE EnrichLimit)

\* What the Congress API answers to the two requests of one legislator:
\* "error" is a request that raises, the others are the items it lists.
ActivityResponses == {"error", "list()", "list(a1)", "list(a2)"}

\* A get_member_voting_record that lets the exception out.
voting_record_raising(resp) ==
    IF resp = "error" THEN [kind |-> "raise", val |-> Nil]
    ELSE [kind |-> "list", val |-> resp]

\* get_member_voting_record(bioguide_id, limit=5): every exception is caught
\* and [] returned.
get_member_voting_record(resp) ==
    IF resp = "error" THEN [kind |-> "list", val |-> "list()"]
    ELSE [kind |-> "list", val |-> resp]

\* An except clause that raises the exception again.
fetch_reraise(e) == e

\* except Exception as e: ... return [] of _fetch_representative_data.
fetch_except(e) == [kind |-> "list", val |-> <<>>]

\* rep with rep['recent_activity'] = activity; Absent when the key is not set.
Enhanced(rep, activity) ==
    [name |-> rep.name, party |-> rep.party, title |-> rep.title,
     chamber |-> rep.chamber, district |-> rep.district, state |-> rep.state,
     bioguide_id |-> rep.bioguide_id, phone |-> rep.phone,
     address |-> rep.address, website |-> rep.website,
     contact_form |-> rep.contact_form, twitter |-> rep.twitter,
     photo_url |-> rep.photo_url, recent_activity |-> activity]

Running == [kind |-> "running", val |-> <<>>]

\* _fetch_representative_data(zip_code, ...) is called and asks Geocodio.
fetch_begin(z) ==
    LET r == Representatives(z, geo) IN
    /\ enr.pc = "idle"
    /\ Called("fetch", z, Nil, r.kind = "list", <<>>, Nil, Nil)
    /\ upstream' = IF LookupRequests(z)
                   THEN <<[call |-> "geo", arg |-> z, result |-> geo.kind]>>
                   ELSE NoCalls
    /\ IF r.kind = "list"
       THEN /\ enr' = [pc |-> "loop", reps |-> FirstThree(r.val), i |-> 1,
                       out |-> <<>>, inflight |-> {}]
            /\ ret' = Running
            /\ log' = NoLog
       ELSE /\ enr' = IdleEnr
            /\ ret' = fetch_except(r)
            /\ log' = ErrorLog
    /\ UNCHANGED <<rows, chat, now, tx, geo, congress>>

\* The loop meets a rep without bioguide_id: it is appended as it is.
fetch_skip ==
    /\ enr.pc = "loop" /\ enr.i <= Len(enr.reps)
    /\ Falsy(enr.reps[enr.i].bioguide_id)
    /\ enr' = [enr EXCEPT !.i = @ + 1,
                          !.out = Append(@, Enhanced(enr.reps[enr.i], Absent))]
    /\ UNCHANGED <<rows, chat, now, nops, pre, prechat, op, ret, log, upstream, tx, geo, congress>>

\* The loop calls get_member_voting_record for the rep and waits for it.
fetch_request ==
    /\ enr.pc = "loop" /\ enr.i <= Len(enr.reps)
    /\ ~Falsy(enr.reps[enr.i].bioguide_id)
    /\ enr' = [enr EXCEPT !.pc = "wait", !.inflight = @ \cup {enr.i}]
    /\ UNCHANGED <<rows, chat, now, nops, pre, prechat, op, ret, log, upstream, tx, geo, congress>>

\* get_member_voting_record returns; the rep gets its recent_activity.
fetch_response(resp) ==
    LET activity == get_member_voting_record(resp)
        rep == enr.reps[enr.i]
    IN
    /\ enr.pc = "wait"
    /\ upstream' = Append(upstream, [call |-> "activity", arg |-> rep.bioguide_id,
                                     result |-> resp])
    /\ IF activity.kind = "list"
       THEN /\ enr' = [enr EXCEPT !.pc = "loop", !.i = @ + 1,
                                  !.inflight = @ \ {enr.i},
                                  !.out = Append(@, Enhanced(rep, activity.val))]
            /\ UNCHANGED <<ret, log>>
       ELSE /\ enr' = IdleEnr
            /\ ret' = fetch_except(activity)
            /\ log' = ErrorLog
    /\ UNCHANGED <<rows, chat, now, nops, pre, prechat, op, tx, geo, congress>>

\* The loop is over: return enhanced_reps.
fetch_return ==
    /\ enr.pc = "loop" /\ enr.i > Len(enr.reps)
    /\ ret' = [kind |-> "list", val |-> enr.out]
    /\ enr' = IdleEnr
    /\ UNCHANGED <<rows, chat, now, nops, pre, prechat, op, log, upstream, tx, geo, congress>>

\* A cache that is never read.
CacheNeverHit(force, cached) == FALSE

\* not force_refresh, and cached_reps is a non-empty list.
CacheHit(force, cached) == ~force /\ cached.kind = "list" /\ Len(cached.val) > 0

\* get_representatives_with_cache(zip_code, force_refresh): the cached list on
\* a hit; on a miss a message is printed and [] returned.
get_representatives_with_cache(z, force, io) ==
    \E s \in Ordered(Selected(rows, z, now)) :
        LET cached == IF io THEN Caught(NoneRet) ELSE CachedResult(s)
            hit == CacheHit(force, cached)
        IN
        /\ enr.pc = "idle"
        /\ force => ~io
        /\ Call(IF force THEN "with_cache_force" ELSE "with_cache", z, Nil, ~io,
                <<>>, Nil, Nil)
        /\ ret' = IF hit THEN cached ELSE [kind |-> "list", val |-> <<>>]
        /\ log' = IF hit THEN [msg |-> "retrieved", n |-> Len(s), m |-> 0]
                  ELSE IF io THEN ErrorLog
                  ELSE [msg |-> "cache miss", n |-> 0, m |-> 0]
        /\ UNCHANGED <<rows, chat, now>>

\* The answers of Geocodio the enrichment is run against.
EnrichResponses ==
    { Unreachable, GeoResponse("noresults", <<>>), GeoResponse("ok", <<>>),
      GeoResponse("ok", <<LegRyan, LegSchumer, LegGillibrand>>),
      GeoResponse("ok", <<LegSchumer, [LegRyan EXCEPT !.references = Missing(@)],
                          LegGillibrand, LegRyan>>),
      GeoResponse("ok", <<[LegSchumer EXCEPT !.references = Missing(@)], LegRyan>>),
      GeoResponse("ok", <<LegRyan, [LegSchumer EXCEPT !.bio = Null(@)]>>) }

\* The tables the enrichment may find: empty, or written at time 0 by one
\* cache_representatives call.
WarmTables ==
    { {} } \cup { InsertAll({}, z, l, 1, 0) :
                    z \in ZipCodes, l \in {<<RepRyan, SenSchumer, SenGillibrand>>} }

InitEnrich == \E tbl \in WarmTables, g \in EnrichResponses : Start(tbl, g)

NextEnrich ==
    \/ enr.pc = "idle" /\ Tick
    \/ \E z \in ZipCodes, io \in BOOLEAN :
          enr.pc = "idle" /\ get_cached_representatives(z, io)
    \/ \E z \in ZipCodes, force \in BOOLEAN, io \in BOOLEAN :
          get_representatives_with_cache(z, force, io)
    \/ \E z \in ZipInputs : get_representatives(z)
    \/ \E z \in ZipInputs : fetch_begin(z)
    \/ fetch_skip
    \/ fetch_request
    \/ \E resp \in ActivityResponses : fetch_response(resp)
    \/ fetch_return

SpecEnrich == InitEnrich /\ [][NextEnrich]_vars

InitResolve == \E g \in GeoResponses : Start({}, g)

NextResolve ==
    \/ \E z \in ZipInputs : get_representatives(z)
    \/ \E io \in BOOLEAN :
          /\ op.name = "resolve" /\ ret.kind = "list"
          /\ cache_representatives(op.zip, [i \in 1..Len(ret.val) |-> CacheInput(ret.val[i])], io)

SpecResolve == InitResolve /\ [][NextResolve]_vars

\* ============================================================ concurrency
\* cache_representatives on connection w, statement by statement.  SQLite
\* keeps the statements of a transaction out of the database file until
\* conn.commit(); deleted and inserted are the transaction's changes so far.

\* The table with the changes of transaction t applied.
Applied(tbl, t) ==
    {r \in tbl \ t.deleted : \A n \in t.inserted : ~SameKey(r, n)} \cup t.inserted

\* Every statement is committed as it is executed.
AfterStatementAutocommit(tbl, t) == Applied(tbl, t)

\* What the other connections find in the table after a statement of the open
\* transaction t: the committed rows.
AfterStatement(tbl, t) == tbl

\* The positions at which a connection has written and not yet committed: after
\* the DELETE of cache_representatives, of cleanup_expired_representatives and
\* of cleanup_expired_data.
Locking == {"insert", "evict_commit", "sweep_chat", "sweep_commit"}

\* Writers do not lock each other out.
WriteLockIgnored(w) == TRUE

\* The DELETE needs the database's write lock, which one open transaction holds.
WriteLockFree(w) == \A v \in Writers \ {w} : tx[v].pc \notin Locking

\* The position of a transaction that ends now among those that have ended.
EndOrder == Cardinality({v \in Writers : tx[v].pc = "done"}) + 1

\* A step of the cache_representatives call of connection w.
TxStep(w) ==
    /\ op' = [name |-> "tx", zip |-> tx[w].zip, bio |-> Nil, ok |-> TRUE,
              recs |-> tx[w].recs, bills |-> Nil, votes |-> Nil, after |-> -1]
    /\ UNCHANGED <<chat, now, nops, pre, prechat, ret, upstream, enr, geo, congress>>

\* cache_representatives(z, reps) is called on connection w and connects.
put_begin(w, z, reps) ==
    /\ tx[w].pc = "idle"
    /\ Called("put_begin", z, Nil, TRUE, reps, Nil, Nil)
    /\ tx' = [tx EXCEPT ![w] = [IdleTx EXCEPT !.pc = "delete", !.zip = z,
                                              !.recs = reps, !.i = 1]]
    /\ UNCHANGED <<rows, chat, now, ret, log, upstream, enr, geo, congress>>

\* The DELETE: the transaction begins and takes the write lock.
put_delete(w) ==
    /\ tx[w].pc = "delete"
    /\ WriteLockFree(w)
    /\ tx' = [tx EXCEPT ![w].pc = "insert", ![w].old = rows,
                        ![w].deleted = RowsOfZip(rows, tx[w].zip)]
    /\ rows' = AfterStatement(rows, tx'[w])
    /\ log' = NoLog
    /\ TxStep(w)

\* The DELETE finds the database locked until its timeout: OperationalError,
\* caught and printed.
put_busy(w) ==
    /\ tx[w].pc = "delete"
    /\ ~WriteLockFree(w)
    /\ tx' = [tx EXCEPT ![w].pc = "done", ![w].ok = FALSE, ![w].at = EndOrder]
    /\ log' = ErrorLog
    /\ UNCHANGED rows
    /\ TxStep(w)

\* One INSERT OR REPLACE of the loop; a NOT NULL failure raises, the
\* transaction is rolled back and the error printed.
put_insert(w) ==
    LET row == NewRow(tx[w].zip, tx[w].recs[tx[w].i], now) IN
    /\ tx[w].pc = "insert" /\ tx[w].i <= Len(tx[w].recs)
    /\ IF NotNullOk(row)
       THEN /\ tx' = [tx EXCEPT ![w].i = @ + 1,
                                ![w].inserted = InsertOrReplace(@, row)]
            /\ rows' = AfterStatement(rows, tx'[w])
            /\ log' = NoLog
       ELSE /\ tx' = [tx EXCEPT ![w].pc = "done", ![w].ok = FALSE,
                                ![w].at = EndOrder,
                                ![w].deleted = {}, ![w].inserted = {}]
            /\ rows' = rows
            /\ log' = ErrorLog
    /\ TxStep(w)

\* conn.commit(): the changes reach the table at once.
put_commit(w) ==
    /\ tx[w].pc = "insert" /\ tx[w].i > Len(tx[w].recs)
    /\ rows' = Applied(rows, tx[w])
    /\ tx' = [tx EXCEPT ![w].pc = "done", ![w].ok = TRUE, ![w].at = EndOrder]
    /\ log' = [msg |-> "cached", n |-> Len(tx[w].recs), m |-> 0]
    /\ TxStep(w)

InitConc == \E tbl \in WarmTables : Start(tbl, Unreachable)

NextConc ==
    \/ \E w \in Writers, z \in ZipCodes, reps \in RepLists : put_begin(w, z, reps)
    \/ \E w \in Writers : put_delete(w)
    \/ \E w \in Writers : put_busy(w)
    \/ \E w \in Writers : put_insert(w)
    \/ \E w \in Writers : put_commit(w)
    \/ \E z \in ZipCodes, io \in BOOLEAN : get_cached_representatives(z, io)

SpecConc == InitConc /\ [][NextConc]_vars

\* ------------------------------------------------------- claims C11 - C20
\* The lists get_cached_representatives may return for the rows tbl holds.
CachedLists(tbl, z, t) == {CachedResult(s) : s \in Ordered(Selected(tbl, z, t))}

\* A get_representatives_with_cache call without force_refresh has returned.
CacheFirstCall == op.name = "with_cache" /\ op.ok

\* C11: whenever the ZIP has rows a get returns (visible rows, and the read
\* succeeds) and force_refresh is false, get_representatives_with_cache returns
\* exactly the cached records, makes no request to Geocodio or to the Congress
\* API, and writes nothing to the cache.
C11_CacheFirstShortCircuit ==
    (CacheFirstCall /\ Selected(pre, op.zip, now) # {}) =>
        /\ ret \in CachedLists(pre, op.zip, now)
        /\ BiosReturned = BiosOfRows(Selected(pre, op.zip, now))
        /\ upstream = NoCalls
        /\ rows = pre

\* A call without force_refresh on a warm ZIP has returned its three records.
C11_Witness ==
    /\ CacheFirstCall /\ Selected(pre, op.zip, now) # {}
    /\ ret.kind = "list" /\ Len(ret.val) = 3

\* The call found nothing to return from the cache: no visible row, or
\* force_refresh.
CacheMiss ==
    \/ op.name = "with_cache_force"
    \/ op.name = "with_cache" /\ Selected(pre, op.zip, now) = {}
    \/ op.name = "fetch" /\ enr.pc = "idle"

\* C12 (as claimed): a call that misses the cache, or is forced, on a ZIP that
\* Geocodio resolves to legislators asks Geocodio, returns the assembled
\* records and has written them to the cache, so that the ZIP's visible rows
\* are the records returned.
C12_WriteThroughOnMiss ==
    (/\ CacheMiss /\ op.ok
     /\ Representatives(op.zip, geo).kind = "list"
     /\ Len(Representatives(op.zip, geo).val) > 0) =>
        /\ \E k \in 1..Len(upstream) : upstream[k].call = "geo"
        /\ ret.kind = "list"
        /\ BiosReturned = BiosOfList(FirstThree(Representatives(op.zip, geo).val))
        /\ BiosOfRows(Selected(rows, op.zip, now)) = BiosReturned

\* The ZIP is not five digits, or Geocodio has no answer for it: the request
\* fails, it finds nothing, or what it finds has no congressional district.
GeoFails(z) == z \notin ZipCodes \/ geo.kind # "ok"

\* A _fetch_representative_data call has returned.
FetchReturned == op.name = "fetch" /\ enr.pc = "idle"

ActivityCalls == SelectSeq(upstream, LAMBDA c : c.call = "activity")

\* The enrichment has returned for a ZIP that resolves to three legislators,
\* and exactly one of its activity requests failed.
OneOfThreeFailed ==
    /\ FetchReturned
    /\ Representatives(op.zip, geo).kind = "list"
    /\ Len(Representatives(op.zip, geo).val) = 3
    /\ Cardinality({k \in 1..Len(ActivityCalls) : ActivityCalls[k].result = "error"}) = 1

C15_FirstThreeOneAtATime ==
    /\ Cardinality(enr.inflight) <= 1
    /\ op.name = "fetch" =>
          /\ Len(ActivityCalls) <= 3
          /\ \A k \in 1..Len(ActivityCalls) : ~Falsy(ActivityCalls[k].arg)
          /\ Len(enr.out) <= 3
    /\ (FetchReturned /\ Representatives(op.zip, geo).kind = "list") =>
          LET reps == Representatives(op.zip, geo).val
              n == IF Len(reps) < 3 THEN Len(reps) ELSE 3
          IN /\ ret.kind = "list" /\ Len(ret.val) = n
             /\ \A i \in 1..n :
                   /\ ret.val[i].bioguide_id = reps[i].bioguide_id
                   /\ ret.val[i].name = reps[i].name
                   /\ Falsy(reps[i].bioguide_id) => ret.val[i].recent_activity = Absent
             /\ Len(ActivityCalls) = Cardinality({i \in 1..n : ~Falsy(reps[i].bioguide_id)})

\* Geocodio returned four legislators, the second without bioguide_id: three
\* records have come back after two requests.
C15_Witness ==
    /\ FetchReturned /\ Len(geo.legs) = 4 /\ ret.kind = "list" /\ Len(ret.val) = 3
    /\ ret.val[2].recent_activity = Absent
    /\ Len(ActivityCalls) = 2

\* A request to the Congress API is in flight.
C15_WitnessInFlight == Cardinality(enr.inflight) = 1 /\ enr.i = 3

\* The lower-cased type string of the i-th legislator Geocodio returned.
TitleOf(i) == Lower(GetStr(geo.legs[i].type).s)

\* The Geocodio client has returned a list.
Resolved == op.name = "resolve" /\ ret.kind = "list"

\* C16: a legislator whose lower-cased type contains "senator" becomes a
\* Senator without district; otherwise one whose type contains
\* "representative" becomes a Representative with the ZIP's district number;
\* every other legislator becomes a Legislator with the ZIP's district number.
\* No other chamber is produced.
C16_ThreeWayClassification ==
    Resolved =>
        /\ Len(ret.val) = Len(geo.legs)
        /\ \A i \in 1..Len(ret.val) :
              /\ ret.val[i].chamber \in {"Senator", "Representative", "Legislator"}
              /\ Contains(<<"s", "e", "n", "a", "t", "o", "r">>, TitleOf(i)) =>
                    ret.val[i].chamber = "Senator" /\ ret.val[i].district = Nil
              /\ (/\ ~Contains(<<"s", "e", "n", "a", "t", "o", "r">>, TitleOf(i))
                  /\ Contains(<<"r", "e", "p", "r", "e", "s", "e", "n", "t", "a", "t", "i", "v", "e">>,
                              TitleOf(i))) =>
                    /\ ret.val[i].chamber = "Representative"
                    /\ ret.val[i].district = geo.number
              /\ (/\ ~Contains(<<"s", "e", "n", "a", "t", "o", "r">>, TitleOf(i))
                  /\ ~Contains(<<"r", "e", "p", "r", "e", "s", "e", "n", "t", "a", "t", "i", "v", "e">>,
                               TitleOf(i))) =>
                    /\ ret.val[i].chamber = "Legislator"
                    /\ ret.val[i].district = geo.number

\* A "senator" and a "delegate" have been classified in one lookup.
C16_Witness ==
    /\ Resolved /\ Len(ret.val) = 2
    /\ ret.val[1].title = "senator" /\ ret.val[1].chamber = "Senator"
    /\ ret.val[1].district = Nil
    /\ ret.val[2].title = "delegate" /\ ret.val[2].chamber = "Legislator"
    /\ ret.val[2].district = "int(18)"

\* C17 (as claimed): every record of a lookup and every cache row has one of
\* the three chambers, and a district if and only if it is a Representative.
C17_DistrictIffRepresentative ==
    /\ Resolved =>
          \A i \in 1..Len(ret.val) :
              /\ ret.val[i].chamber \in {"Senator", "Representative", "Legislator"}
              /\ ret.val[i].district # Nil <=> ret.val[i].chamber = "Representative"
    /\ \A r \in rows :
          /\ r.chamber \in {"Senator", "Representative", "Legislator"}
          /\ r.district # Nil <=> r.chamber = "Representative"

\* C17 (amended): every record of a lookup, and every cache row written from
\* one, has one of the three chambers; its district is null if and only if it
\* is a Senator: a Representative and a Legislator both carry the ZIP's
\* district number (as text in the cache row).
C17_DistrictUnlessSenator ==
    /\ Resolved =>
          \A i \in 1..Len(ret.val) :
              /\ ret.val[i].chamber \in {"Senator", "Representative", "Legislator"}
              /\ ret.val[i].district = Nil <=> ret.val[i].chamber = "Senator"
              /\ ret.val[i].district # Nil => ret.val[i].district = geo.number
    /\ \A r \in rows :
          /\ r.chamber \in {"Senator", "Representative", "Legislator"}
          /\ r.district = Nil <=> r.chamber = "Senator"
          /\ r.district # Nil => r.district = "18"

\* A Legislator row with a district is in the cache, next to a Senator row.
C17_Witness ==
    /\ op.name = "put" /\ op.ok
    /\ \E r \in rows : r.chamber = "Legislator" /\ r.district = "18"
    /\ \E r \in rows : r.chamber = "Senator" /\ r.district = Nil

\* One field of the legislator is null or missing.
OneFieldMissing(legislator) == legislator \in FieldVariants

\* C18 (as claimed): a lookup of a well-formed ZIP in which one legislator has
\* one null or missing field returns every legislator.
C18_MissingFieldTolerated ==
    (/\ op.name = "resolve" /\ op.zip \in ZipCodes /\ geo.kind = "ok"
     /\ Cardinality({i \in 1..Len(geo.legs) : OneFieldMissing(geo.legs[i])}) = 1
     /\ \A i \in 1..Len(geo.legs) : geo.legs[i].type.tag = "str") =>
        /\ ret.kind = "list"
        /\ Len(ret.val) = Len(geo.legs)

\* What holds: a missing key never fails the lookup, and a missing first or
\* last name gives the other name alone.
C18_MissingKeyTolerated ==
    (/\ op.name = "resolve" /\ op.zip \in ZipCodes /\ geo.kind = "ok"
     /\ \A i \in 1..Len(geo.legs) :
           /\ geo.legs[i].bio.tag # "null" /\ geo.legs[i].contact.tag # "null"
           /\ geo.legs[i].social.tag # "null" /\ geo.legs[i].references.tag # "null"
           /\ geo.legs[i].type.tag # "null") =>
        /\ ret.kind = "list"
        /\ Len(ret.val) = Len(geo.legs)
        /\ \A i \in 1..Len(ret.val) :
              geo.legs[i].bio.tag = "absent" => ret.val[i].name = ""

\* The table a transaction leaves when it commits: the one it found, with the
\* ZIP's rows replaced by the rows of its list.
NewTable(t) == InsertAll(DeleteZip(t.old, t.zip), t.zip, t.recs, 1, now)

\* The connection whose transaction was committed last.
LastCommitted(w) ==
    /\ tx[w].pc = "done" /\ tx[w].ok
    /\ \A v \in Writers : (tx[v].pc = "done" /\ tx[v].ok) => tx[v].at <= tx[w].at

\* A get_cached_representatives call has returned.
GetReturned == op.name = "get" /\ op.ok

\* C19: a get that runs while a put is in progress (after its DELETE, before
\* its commit) returns the complete set of records the ZIP had before the put:
\* not an empty result when that set was not empty, and no part of the new
\* records; a get that runs after the commit returns the complete new set.
C19_AtomicReplace ==
    GetReturned =>
        /\ \A w \in Writers :
              tx[w].pc = "insert" => ret \in CachedLists(tx[w].old, op.zip, now)
        /\ \A w \in Writers :
              (LastCommitted(w) /\ \A v \in Writers : tx[v].pc # "insert") =>
                  ret \in CachedLists(NewTable(tx[w]), op.zip, now)

\* A get of a warm ZIP has returned the three old records while a put of the
\* same ZIP had deleted them and inserted two of its own.
C19_Witness ==
    /\ GetReturned /\ ret.kind = "list" /\ Len(ret.val) = 3
    /\ \E w \in Writers :
          /\ tx[w].pc = "insert" /\ tx[w].zip = op.zip
          /\ Cardinality(tx[w].deleted) = 3 /\ Cardinality(tx[w].inserted) = 2
          /\ BiosReturned # BiosOfRows(tx[w].inserted)

\* A get has returned the new records after the commit.
C19_WitnessAfterCommit ==
    /\ GetReturned /\ ret.kind = "list"
    /\ \E w \in Writers :
          /\ LastCommitted(w) /\ tx[w].zip = op.zip /\ tx[w].deleted # {}
          /\ BiosReturned = BiosOfList(tx[w].recs)
          /\ BiosReturned # BiosOfRows(tx[w].deleted)

\* Both connections have finished a put of the same ZIP.
BothFinished ==
    /\ \A w \in Writers : tx[w].pc = "done"
    /\ \A v, w \in Writers : tx[v].zip = tx[w].zip

\* The rows a list gives a ZIP.
RowsOfList(z, reps) == RowsOfZip(InsertAll({}, z, reps, 1, now), z)

\* C20: once two concurrent puts of the same ZIP have both finished, the rows
\* of the ZIP are exactly the rows of one writer's list, the one committed
\* last (never rows of both lists), and (zip_code, bioguide_id) is unique.
C20_LastWriterWins ==
    /\ \A r1, r2 \in rows : SameKey(r1, r2) => r1 = r2
    /\ BothFinished =>
          \A w \in Writers :
              LastCommitted(w) =>
                  RowsOfZip(rows, tx[w].zip) = RowsOfList(tx[w].zip, tx[w].recs)

\* Two puts of different lists on a cold ZIP have both committed.
C20_Witness ==
    /\ BothFinished
    /\ \A w \in Writers : tx[w].ok
    /\ BiosOfList(tx["w1"].recs) # BiosOfList(tx["w2"].recs)
    /\ Len(tx["w1"].recs) > 0 /\ Len(tx["w2"].recs) > 0
    /\ \E w \in Writers : tx[w].old = {}

\* ================================================= claims C21 to C30
\* C23: get_cache_stats is a read-only snapshot: it changes no row (neither
\* when it succeeds nor when it fails), and the dict of a successful call has
\* total_representatives = the number of stored rows, unique_zip_codes = the
\* number of distinct ZIPs among them, active_entries = the number of rows with
\* expires_at > now, with active_entries <= total_representatives and
\* senators + house_representatives <= active_entries.
C23_StatsSnapshot ==
    op.name = "stats" =>
        /\ rows = pre
        /\ op.ok =>
               /\ ret.kind = "stats"
               /\ ret.val.total_representatives = Cardinality(rows)
               /\ ret.val.unique_zip_codes =
                      Cardinality({z \in ZipCodes : \E r \in rows : r.zip_code = z})
               /\ ret.val.active_entries = Cardinality({r \in rows : r.expires_at > now})
               /\ ret.val.active_entries <= ret.val.total_representatives
               /\ ret.val.senators + ret.val.house_representatives
                      <= ret.val.active_entries

\* Stats of a table with two ZIPs, one of them expired, whose active rows hold
\* a Legislator: every inequality of C23 is strict.
C23_Witness ==
    /\ op.name = "stats" /\ op.ok
    /\ ret.val.unique_zip_codes = 2
    /\ ret.val.active_entries > 0
    /\ ret.val.active_entries < ret.val.total_representatives
    /\ ret.val.senators + ret.val.house_representatives < ret.val.active_entries
    /\ \E r \in rows : r.chamber = "Senator" /\ ~(r.expires_at > now)

\* A record that an INSERT of cache_representatives rejects: bioguide_id, name
\* or state is None.
Rejected(rep) == rep.bioguide_id = Nil \/ rep.name = Nil \/ rep.state = Nil

\* C26: a put whose list holds a record without bioguide_id, name or state is
\* all-or-nothing: no record of the list is stored (the ones before the
\* rejected record included), the rows the table held before the put are all
\* still there, the visible ones still visible, and the call returns None
\* without raising.
C26_FailedPutAllOrNothing ==
    (op.name = "put" /\ \E i \in 1..Len(op.recs) : Rejected(op.recs[i])) =>
        /\ ~op.ok
        /\ ret.kind = "None"
        /\ rows = pre
        /\ \A i \in 1..Len(op.recs) :
               NewRow(op.zip, op.recs[i], now) \notin rows \/
               NewRow(op.zip, op.recs[i], now) \in pre
        /\ Selected(rows, op.zip, now) = Selected(pre, op.zip, now)

\* A put fails at its second record, after an INSERT that would succeed, on a
\* ZIP that had visible rows with another bioguide_id.
C26_Witness ==
    /\ op.name = "put" /\ Len(op.recs) = 2
    /\ ~Rejected(op.recs[1]) /\ Rejected(op.recs[2])
    /\ \E r \in Selected(rows, op.zip, now) : r.bioguide_id # op.recs[1].bioguide_id

\* The rows of tbl that get would return at time t and that were stored in
\* old under the same key without being returnable at time t.
Revived(old, tbl, t) ==
    {r \in tbl : /\ r.expires_at > t
                 /\ \E q \in old : /\ q.zip_code = r.zip_code
                                    /\ q.bioguide_id = r.bioguide_id
                                    /\ ~(q.expires_at > t)}

\* C27 as the spec states it: a row that get has stopped returning is returned
\* again only after a put has rewritten it; no other call, refresh_activity
\* included, makes such a row visible again.
C27_ExpiredStaysHiddenUntilPut ==
    op.name # "put" => Revived(pre, rows, now) = {}

\* C27, amended: a row that get has stopped returning is returned again only
\* after a put has rewritten it or after update_representative_congress_data
\* has been called for its (zip_code, bioguide_id) while it was still stored:
\* the refresh sets expires_at to now + TTL, so the row is visible again, with
\* its created_at unchanged. No other call and no other row is concerned.
C27_ExpiredHiddenUntilPutOrRefresh ==
    /\ op.name \notin {"put", "refresh"} => Revived(pre, rows, now) = {}
    /\ (op.name = "refresh" /\ op.ok) =>
           /\ \A r \in Revived(pre, rows, now) :
                  /\ r.zip_code = op.zip /\ r.bioguide_id = op.bio
                  /\ r.expires_at = now + TTL
                  /\ \E q \in pre : q.created_at = r.created_at /\ q.bioguide_id = r.bioguide_id
                                     /\ q.zip_code = r.zip_code
           /\ \A q \in pre :
                  (q.zip_code = op.zip /\ q.bioguide_id = op.bio) =>
                      \E r \in rows : /\ r.zip_code = op.zip /\ r.bioguide_id = op.bio
                                       /\ r.expires_at > now
    /\ (op.name = "refresh" /\ ~op.ok) => Revived(pre, rows, now) = {}

\* A refresh of an expired row that no eviction has deleted: the row is
\* visible again, and another expired row of the ZIP is not.
C27_Witness ==
    /\ op.name = "refresh" /\ op.ok
    /\ Revived(pre, rows, now) # {}
    /\ \E r \in rows : r.zip_code = op.zip /\ ~(r.expires_at > now)

\* C28: ZIP isolation. cache_representatives(zip1, ...) and
\* update_representative_congress_data(zip1, ...) leave the rows of every
\* other ZIP as they were, so get_cached_representatives(zip2) returns the
\* same lists before and after, also when a bioguide_id of the call is stored
\* under both ZIPs.
C28_ZipIsolation ==
    op.name \in {"put", "refresh"} =>
        \A z \in ZipCodes \ {op.zip} :
            /\ {r \in rows : r.zip_code = z} = {r \in pre : r.zip_code = z}
            /\ CachedLists(rows, z, now) = CachedLists(pre, z, now)

\* A refresh of one ZIP has changed a row whose bioguide_id is also stored,
\* and visible, under the other ZIP.
C28_WitnessRefresh ==
    /\ op.name = "refresh" /\ op.ok /\ rows # pre
    /\ \E r \in rows : r.zip_code # op.zip /\ r.bioguide_id = op.bio /\ r.expires_at > now

\* A put has replaced the rows of one ZIP while a bioguide_id of its list is
\* stored, and visible, under the other ZIP.
C28_Witness ==
    /\ op.name = "put" /\ op.ok /\ rows # pre
    /\ \E r \in rows, q \in rows :
           /\ r.zip_code = op.zip /\ q.zip_code # op.zip
           /\ r.bioguide_id = q.bioguide_id /\ q.expires_at > now
    /\ \E r \in pre : r.zip_code = op.zip

\* ============================================ eviction next to readers
\* cleanup_expired_representatives and cleanup_expired_data statement by
\* statement, each on a connection of its own, next to get_cached_representatives
\* on other connections.  A DELETE reads datetime('now') when it runs; the
\* clock may advance before the commit.

\* A chat_history row.
Message(id, session, t) ==
    [id |-> id, session_id |-> session, user_message |-> "u" \o ToString(id),
     bot_response |-> "b" \o ToString(id), message_type |-> "general", created_at |-> t]

\* A table left by a put of ZIP 12601 two days ago and a put of ZIP 06516
\* yesterday, followed by refreshes of one row yesterday and of two rows today:
\* expires_at is -1 (expired), 0 (neither visible nor deleted at time 0) or 1.
EvictTable ==
    LET old == InsertAll({}, "12601", <<RepRyan, SenSchumer, SenGillibrand>>, 1, -2)
        mid == InsertAll({}, "06516", <<Legislator, RepRyan, SenSchumer>>, 1, -1)
    IN  {IF r.bioguide_id = "S000148" THEN UpdatedRow(r, "list(b1)", "list(v1)", -1)
         ELSE IF r.bioguide_id = "G000555" THEN UpdatedRow(r, "list(b1)", "list(v1)", 0)
         ELSE r : r \in old}
        \cup
        {IF r.bioguide_id = "R000579" THEN UpdatedRow(r, "list(b1)", "list(v1)", 0)
         ELSE r : r \in mid}

\* Chat rows saved 8, 7, 6 and 5 days ago and today.
EvictChat ==
    <<Message(1, "s", 0 - ChatRetentionDays - 1), Message(2, "t", 0 - ChatRetentionDays),
      Message(3, "s", 1 - ChatRetentionDays), Message(4, "s", 2 - ChatRetentionDays),
      Message(5, "t", 0)>>

\* The call on connection w ends: what the caller and the log get.
Finished(w, name, ok) ==
    /\ op' = [name |-> name, zip |-> Nil, bio |-> Nil, ok |-> ok, recs |-> <<>>,
              bills |-> Nil, votes |-> Nil, after |-> -1]
    /\ pre' = rows
    /\ prechat' = chat
    /\ ret' = IF ok THEN NoneRet ELSE Caught(NoneRet)
    /\ tx' = [tx EXCEPT ![w].pc = "done", ![w].ok = ok, ![w].at = EndOrder]
    /\ UNCHANGED <<now, nops, upstream, enr, geo, congress>>

\* cleanup_expired_representatives() is called on connection w and connects.
evict_begin(w) ==
    /\ tx[w].pc = "idle"
    /\ Called("evict_begin", Nil, Nil, TRUE, <<>>, Nil, Nil)
    /\ tx' = [tx EXCEPT ![w] = [IdleTx EXCEPT !.pc = "evict_delete"]]
    /\ UNCHANGED <<rows, chat, now, ret, log, upstream, enr, geo, congress>>

\* Its DELETE: the transaction begins and takes the write lock.
evict_delete(w) ==
    /\ tx[w].pc = "evict_delete"
    /\ WriteLockFree(w)
    /\ tx' = [tx EXCEPT ![w].pc = "evict_commit", ![w].old = rows, ![w].t_reps = now,
                        ![w].deleted = rows \ DeleteExpired(rows, now)]
    /\ rows' = AfterStatement(rows, tx'[w])
    /\ log' = NoLog
    /\ TxStep(w)

\* Its DELETE finds the database locked: OperationalError, caught and printed.
evict_busy(w) ==
    /\ tx[w].pc = "evict_delete"
    /\ ~WriteLockFree(w)
    /\ log' = ErrorLog
    /\ UNCHANGED <<rows, chat>>
    /\ Finished(w, "evict", FALSE)

\* deleted_count = c.rowcount; conn.commit(); the count is printed when positive.
evict_commit(w) ==
    LET deleted_count == Cardinality(tx[w].deleted) IN
    /\ tx[w].pc = "evict_commit"
    /\ rows' = Applied(rows, tx[w])
    /\ log' = IF deleted_count > 0 THEN [msg |-> "cleaned", n |-> deleted_count, m |-> 0]
              ELSE NoLog
    /\ UNCHANGED chat
    /\ Finished(w, "evict", TRUE)

\* cleanup_expired_data() is called on connection w and connects.
sweep_begin(w) ==
    /\ tx[w].pc = "idle"
    /\ Called("sweep_begin", Nil, Nil, TRUE, <<>>, Nil, Nil)
    /\ tx' = [tx EXCEPT ![w] = [IdleTx EXCEPT !.pc = "sweep_reps"]]
    /\ UNCHANGED <<rows, chat, now, ret, log, upstream, enr, geo, congress>>

\* Its first DELETE, on representative_cache: the transaction begins and takes
\* the write lock.
sweep_reps(w) ==
    /\ tx[w].pc = "sweep_reps"
    /\ WriteLockFree(w)
    /\ tx' = [tx EXCEPT ![w].pc = "sweep_chat", ![w].old = rows, ![w].t_reps = now,
                        ![w].deleted = rows \ DeleteExpired(rows, now)]
    /\ rows' = AfterStatement(rows, tx'[w])
    /\ log' = NoLog
    /\ TxStep(w)

\* Its first DELETE finds the database locked: caught and printed.
sweep_busy(w) ==
    /\ tx[w].pc = "sweep_reps"
    /\ ~WriteLockFree(w)
    /\ log' = ErrorLog
    /\ UNCHANGED <<rows, chat>>
    /\ Finished(w, "sweep", FALSE)

\* Its second DELETE, on chat_history, in the same transaction.
sweep_chat(w) ==
    /\ tx[w].pc = "sweep_chat"
    /\ tx' = [tx EXCEPT ![w].pc = "sweep_commit", ![w].t_chat = now,
                        ![w].chat_new = DeleteOldChat(chat, now)]
    /\ UNCHANGED rows
    /\ log' = NoLog
    /\ TxStep(w)

\* conn.commit(): both DELETEs reach the tables at once; the two counts are
\* printed and nothing is returned.
sweep_commit(w) ==
    /\ tx[w].pc = "sweep_commit"
    /\ rows' = Applied(rows, tx[w])
    /\ chat' = tx[w].chat_new
    /\ log' = [msg |-> "cleanup", n |-> Cardinality(tx[w].deleted),
               m |-> Len(chat) - Len(tx[w].chat_new)]
    /\ Finished(w, "sweep", TRUE)

InitEvict == Boot(EvictTable, EvictChat, Unreachable, Offline)

NextEvict ==
    \/ Tick
    \/ \E w \in Writers : evict_begin(w)
    \/ \E w \in Writers : evict_delete(w)
    \/ \E w \in Writers : evict_busy(w)
    \/ \E w \in Writers : evict_commit(w)
    \/ \E w \in Writers : sweep_begin(w)
    \/ \E w \in Writers : sweep_reps(w)
    \/ \E w \in Writers : sweep_busy(w)
    \/ \E w \in Writers : sweep_chat(w)
    \/ \E w \in Writers : sweep_commit(w)
    \/ \E z \in ZipCodes, io \in BOOLEAN : get_cached_representatives(z, io)

SpecEvict == InitEvict /\ [][NextEvict]_vars

\* C21: eviction never changes what a reader observes.  In every interleaving
\* of cleanup_expired_data and cleanup_expired_representatives with
\* get_cached_representatives, every row an eviction has deleted is a row with
\* expires_at <= now, which get's filter expires_at > now excludes, and a get
\* that returns gives what it would give on the table no eviction has touched.
C21_EvictionUnseenByReaders ==
    /\ \A r \in EvictTable \ rows : ~(r.expires_at > now)
    /\ (op.name \in {"evict", "sweep"} /\ op.ok) =>
           \A r \in pre \ rows : ~(r.expires_at > now)
    /\ GetReturned => ret \in CachedLists(EvictTable, op.zip, now)

\* A get returns a row of a ZIP while a sweep that has deleted another row of
\* that ZIP has not committed yet.
C21_Witness ==
    /\ GetReturned /\ ret.kind = "list"
    /\ \E w \in Writers :
           /\ tx[w].pc \in {"sweep_chat", "sweep_commit"}
           /\ \E r \in tx[w].deleted : r.zip_code = op.zip

\* A get returns a row of a ZIP after an eviction has deleted, and committed,
\* another row of that ZIP.
C21_WitnessAfterCommit ==
    /\ GetReturned /\ ret.kind = "list"
    /\ \E r \in EvictTable \ rows : r.zip_code = op.zip

\* The connection whose call ended last.
LastFinished(w) ==
    tx[w].pc = "done" /\ tx[w].at = Cardinality({v \in Writers : tx[v].pc = "done"})

MaxBills == 2

\* The default of latest_action.get('actionDate', '').
NoDate == 0
\* An actionDate that is null in the JSON: None in Python.
NullDate == 0 - 1
Dates == {1, 2}

\* A bill of an answer; falsy is a null or empty entry of the list.
Bill(d) == [falsy |-> FALSE, title |-> "Bill", date |-> d]
NullBill == [falsy |-> TRUE, title |-> "", date |-> NoDate]
Bills == {Bill(d) : d \in Dates \cup {NoDate, NullDate}} \cup {NullBill}

\* The lists of at most n bills.
BillLists(n) == UNION {[1..k -> Bills] : k \in 0..n}

\* What session.get and the lines after it do for one request: the JSON comes
\* back ("ok"), requests raises a RequestException (transport error, timeout,
\* HTTP error status), or another exception is raised.
Outcomes ==
    {[kind |-> "ok", items |-> l] : l \in BillLists(MaxBills)} \cup
    {[kind |-> k, items |-> <<>>] : k \in {"RequestException", "Exception"}}

\* The answers of the Congress API to the requests of one call.
CongressAnswers ==
    {[Offline EXCEPT !.sponsored = a, !.cosponsored = b] :
         a \in Outcomes, b \in Outcomes} \cup
    {[Offline EXCEPT !.bills = o] :
         o \in {x \in Outcomes : Len(x.items) <= 1}}

\* The limit arguments: activity is asked for with limit=5 and limit=10.
Limits == {1, 2, 5}

\* raise CongressAPIError(error_msg) from e
CongressAPIError == [kind |-> "CongressAPIError", val |-> <<>>]

\* The try block of search_bills: except requests.exceptions.RequestException
\* raises CongressAPIError; any other exception leaves the function as it is.
Search(o) ==
    IF o.kind = "ok" THEN [kind |-> "list", val |-> o.items]
    ELSE IF o.kind = "RequestException" THEN CongressAPIError
    ELSE [kind |-> o.kind, val |-> <<>>]

\* get_member_sponsored_legislation and get_member_cosponsored_legislation: a
\* RequestException gives [], another exception is not caught here.
Fetch(o) ==
    IF o.kind = "ok" THEN [kind |-> "list", val |-> o.items]
    ELSE IF o.kind = "RequestException" THEN [kind |-> "list", val |-> <<>>]
    ELSE Propagated(o)

\* The vote_item dicts built from a list of bills: falsy entries are skipped.
Items(bills, position) ==
    LET kept == SelectSeq(bills, LAMBDA b : ~b.falsy) IN
    [i \in 1..Len(kept) |->
        [date |-> kept[i].date, bill_title |-> kept[i].title, position |-> position]]

\* Comparing None with a str or with None raises TypeError; a sort of two or
\* more items compares every item.
SortRaises(l) == Len(l) >= 2 /\ \E i \in 1..Len(l) : l[i].date = NullDate

\* list.sort(key=lambda x: x['date']), without reverse=True.
RECURSIVE SortAscending(_)
SortAscending(l) ==
    IF Len(l) = 0 THEN <<>>
    ELSE LET s == SortAscending(SubSeq(l, 1, Len(l) - 1))
             x == l[Len(l)]
             k == Cardinality({i \in 1..Len(s) : s[i].date <= x.date})
         IN  SubSeq(s, 1, k) \o <<x>> \o SubSeq(s, k + 1, Len(s))

\* list.sort(key=lambda x: x['date'], reverse=True): the latest date first,
\* items with the same date in the order they had.
RECURSIVE SortByDate(_)
SortByDate(l) ==
    IF Len(l) = 0 THEN <<>>
    ELSE LET s == SortByDate(SubSeq(l, 1, Len(l) - 1))
             x == l[Len(l)]
             k == Cardinality({i \in 1..Len(s) : s[i].date >= x.date})
         IN  SubSeq(s, 1, k) \o <<x>> \o SubSeq(s, k + 1, Len(s))

\* voting_record[:limit]
Take(l, limit) == SubSeq(l, 1, IF limit < Len(l) THEN limit ELSE Len(l))

\* The body of get_member_voting_record on the outcomes of its two fetches;
\* except Exception returns [].
VotingRecord(sponsored, cosponsored, limit) ==
    LET s == Fetch(sponsored)
        c == Fetch(cosponsored)
        voting_record == Items(s.val, "Sponsored") \o Items(c.val, "Cosponsored")
    IN  IF s.kind = "raise" \/ c.kind = "raise" \/ SortRaises(voting_record)
        THEN [kind |-> "list", val |-> <<>>]
        ELSE [kind |-> "list", val |-> Take(SortByDate(voting_record), limit)]

\* get_member_voting_record(bioguide_id, limit); op.recs holds the limit.
member_voting_record(limit) ==
    LET r == VotingRecord(congress.sponsored, congress.cosponsored, limit) IN
    /\ Called("activity", Nil, Nil, TRUE, <<limit>>, Nil, Nil)
    /\ ret' = r
    /\ log' = IF \/ congress.sponsored.kind # "ok"
                 \/ congress.cosponsored.kind # "ok"
                 \/ SortRaises(Items(congress.sponsored.items, "Sponsored") \o
                               Items(congress.cosponsored.items, "Cosponsored"))
              THEN ErrorLog
              ELSE [msg |-> "retrieved", n |-> Len(r.val), m |-> 0]
    /\ upstream' = <<[call |-> "sponsored", arg |-> ToString(limit \div 2),
                      result |-> congress.sponsored.kind]>> \o
                   (IF Fetch(congress.sponsored).kind = "raise" THEN <<>>
                    ELSE <<[call |-> "cosponsored", arg |-> ToString(limit \div 2),
                            result |-> congress.cosponsored.kind]>>)
    /\ UNCHANGED <<rows, chat, now, enr, tx, geo, congress>>

\* search_bills(query).
search_bills ==
    /\ Called("search", Nil, Nil, congress.bills.kind = "ok", <<>>, Nil, Nil)
    /\ ret' = Search(congress.bills)
    /\ log' = IF congress.bills.kind = "ok"
              THEN [msg |-> "found", n |-> Len(congress.bills.items), m |-> 0]
              ELSE IF congress.bills.kind = "RequestException" THEN ErrorLog
              ELSE NoLog
    /\ upstream' = <<[call |-> "bill", arg |-> "q", result |-> congress.bills.kind]>>
    /\ UNCHANGED <<rows, chat, now, enr, tx, geo, congress>>

InitCongress == \E k \in CongressAnswers : Boot({}, <<>>, Unreachable, k)

NextCongress ==
    \/ \E limit \in Limits : member_voting_record(limit)
    \/ search_bills

SpecCongress == InitCongress /\ [][NextCongress]_vars

\* The bills of an answer that are not null or empty entries.
Live(o) == SelectSeq(o.items, LAMBDA b : ~b.falsy)

\* What C24 says of every result: at most limit items, each Sponsored or
\* Cosponsored, the dates never increasing.
WithinLimitTaggedOrdered ==
    /\ ret.kind = "list"
    /\ Len(ret.val) <= op.recs[1]
    /\ \A i \in 1..Len(ret.val) : ret.val[i].position \in {"Sponsored", "Cosponsored"}
    /\ \A i \in 1..Len(ret.val), j \in 1..Len(ret.val) :
           i < j => ret.val[i].date >= ret.val[j].date

\* C24 as the spec states it: get_member_voting_record returns at most limit
\* items, each Sponsored or Cosponsored, ordered by date non-increasing; it
\* returns the empty list, and raises nothing, when the legislator has no
\* activity or when an upstream fetch fails.
C24_EmptyWhenAFetchFails ==
    op.name = "activity" =>
        /\ WithinLimitTaggedOrdered
        /\ (Len(Live(congress.sponsored)) = 0 /\ Len(Live(congress.cosponsored)) = 0) =>
               ret.val = <<>>
        /\ (congress.sponsored.kind # "ok" \/ congress.cosponsored.kind # "ok") =>
               ret.val = <<>>

\* C24, amended: get_member_voting_record never raises and returns at most
\* limit items, each Sponsored or Cosponsored, ordered by date non-increasing.
\* A fetch that fails with a RequestException contributes no items and the
\* items of the other fetch are still returned; the result is empty when
\* neither fetch yields a bill, when a fetch fails with another exception, and
\* when two or more items are to be sorted and one has a null date.
C24_FailedFetchAddsNothing ==
    op.name = "activity" =>
        LET sp == congress.sponsored
            co == congress.cosponsored
            n == (IF sp.kind = "ok" THEN Len(Live(sp)) ELSE 0) +
                 (IF co.kind = "ok" THEN Len(Live(co)) ELSE 0)
            nulls == \/ \E i \in 1..Len(Live(sp)) : Live(sp)[i].date = NullDate
                     \/ \E i \in 1..Len(Live(co)) : Live(co)[i].date = NullDate
        IN  /\ WithinLimitTaggedOrdered
            /\ n = 0 => ret.val = <<>>
            /\ (sp.kind = "Exception" \/ co.kind = "Exception") => ret.val = <<>>
            /\ (n >= 2 /\ nulls) => ret.val = <<>>
            /\ sp.kind # "ok" =>
                   \A i \in 1..Len(ret.val) : ret.val[i].position = "Cosponsored"
            /\ co.kind # "ok" =>
                   \A i \in 1..Len(ret.val) : ret.val[i].position = "Sponsored"
            /\ (sp.kind # "Exception" /\ co.kind # "Exception" /\ ~(n >= 2 /\ nulls)) =>
                   Len(ret.val) = IF op.recs[1] < n THEN op.recs[1] ELSE n

\* The sponsored fetch has failed and the result holds cosponsored items: the
\* latest first, which the answer had last, and fewer than the answer held.
C24_Witness ==
    /\ op.name = "activity"
    /\ congress.sponsored.kind = "RequestException"
    /\ Len(ret.val) = op.recs[1]
    /\ Len(ret.val) < Len(Live(congress.cosponsored))
    /\ ret.val[1].date > Live(congress.cosponsored)[1].date

\* C25: search_bills raises CongressAPIError whenever the HTTP GET under it
\* fails with any exception, transport-library exception or not, and no other
\* exception type leaves the function.
C25_AnyFailureIsCongressAPIError ==
    op.name = "search" =>
        /\ ret.kind \in {"list", "CongressAPIError"}
        /\ congress.bills.kind # "ok" => ret.kind = "CongressAPIError"

\* What the code does: a RequestException becomes CongressAPIError, and an
\* exception of another type leaves search_bills unchanged.
C25_OnlyRequestExceptionIsWrapped ==
    op.name = "search" =>
        /\ congress.bills.kind = "ok" => ret = [kind |-> "list", val |-> congress.bills.items]
        /\ congress.bills.kind = "RequestException" => ret.kind = "CongressAPIError"
        /\ congress.bills.kind = "Exception" => ret.kind = "Exception"

\* ============================================================ chat history
\* The chat_history functions of backend/models/db.py and the /api/chat route
\* of backend/server.py.  The variable chat holds the rows in rowid order;
\* created_at is CURRENT_TIMESTAMP at the INSERT, so it never decreases along
\* the table, and rows saved within the same second have the same created_at.

\* The most rows an initial chat_history table holds.
MaxMsgs == 20

\* get_chat_history(session_id, limit=100)
HistoryLimit == 100
\* get_recent_chat_context(session_id, limit=15)
ContextLimit == 15
\* chat_history[-10:] in _build_smart_chat_prompt
PromptLimit == 10
\* chat_history[-15:] in _build_chat_prompt
FallbackLimit == 15

Sessions == {"s", "t"}

\* A table of n rows, every fifth of session "t" and the others of session
\* "s", saved one per second until a second ago, or all in the present second.
ChatOf(n, tied) ==
    [i \in 1..n |-> Message(i, IF i % 5 = 0 THEN "t" ELSE "s",
                            IF tied THEN 0 ELSE i - n - 1)]

ChatTables ==
    {ChatOf(n, tied) : n \in {0, 3, PromptLimit + 2, ContextLimit - 1, MaxMsgs},
                       tied \in BOOLEAN}

\* The dict built from a row: user_message, bot_response, message_type and
\* created_at.
MessageDict(x) ==
    [user_message |-> x.user_message, bot_response |-> x.bot_response,
     message_type |-> x.message_type, created_at |-> x.created_at]

\* WHERE session_id = ?
OfSession(c, session) == SelectSeq(c, LAMBDA x : x.session_id = session)

\* ORDER BY created_at ASC: rows with the same created_at in rowid order.
RECURSIVE OrderAsc(_)
OrderAsc(l) ==
    IF Len(l) = 0 THEN <<>>
    ELSE LET s == OrderAsc(SubSeq(l, 1, Len(l) - 1))
             x == l[Len(l)]
             k == Cardinality({i \in 1..Len(s) : s[i].created_at <= x.created_at})
         IN  SubSeq(s, 1, k) \o <<x>> \o SubSeq(s, k + 1, Len(s))

\* ORDER BY created_at DESC: rows with the same created_at in rowid order.
RECURSIVE OrderDesc(_)
OrderDesc(l) ==
    IF Len(l) = 0 THEN <<>>
    ELSE LET s == OrderDesc(SubSeq(l, 1, Len(l) - 1))
             x == l[Len(l)]
             k == Cardinality({i \in 1..Len(s) : s[i].created_at >= x.created_at})
         IN  SubSeq(s, 1, k) \o <<x>> \o SubSeq(s, k + 1, Len(s))

\* The list comprehension over c.fetchall().
Dicts(l) == [i \in 1..Len(l) |-> MessageDict(l[i])]

\* l[-n:]
LastOf(l, n) == SubSeq(l, IF Len(l) > n THEN Len(l) - n + 1 ELSE 1, Len(l))

\* The rows get_chat_history selects: ORDER BY created_at ASC LIMIT ?.
History(c, session, limit) == Dicts(Take(OrderAsc(OfSession(c, session)), limit))

\* The rows get_recent_chat_context selects: ORDER BY created_at DESC LIMIT ?;
\* the reversal of the list is commented out.
RecentContext(c, session, limit) ==
    Dicts(Take(OrderDesc(OfSession(c, session)), limit))

\* DELETE FROM chat_history.
DeleteEverySession(c, session) == <<>>

\* DELETE FROM chat_history WHERE session_id = ?
DeleteSession(c, session) == SelectSeq(c, LAMBDA x : x.session_id # session)

\* The row an INSERT adds: the next id of the AUTOINCREMENT column and the
\* present time.
NewMessage(session) == Message(MaxMsgs + nops + 1, session, now)

\* A call of a chat function; op.recs holds its arguments.
ChatCall(name, ok, args) ==
    /\ Call(name, Nil, Nil, ok, args, Nil, Nil)
    /\ UNCHANGED <<rows, now>>

\* save_chat_message(session_id, user_message, bot_response); ok is FALSE when
\* the INSERT raises (a None message, a storage error): caught and printed.
save_chat_message(session, ok) ==
    /\ ChatCall("save", ok, <<session>>)
    /\ chat' = IF ok THEN Append(chat, NewMessage(session)) ELSE chat
    /\ ret' = IF ok THEN NoneRet ELSE Caught(NoneRet)
    /\ log' = IF ok THEN NoLog ELSE ErrorLog

\* get_chat_history(session_id, limit); [] on a storage error.
get_chat_history(session, limit, io) ==
    /\ ChatCall("history", ~io, <<session, limit>>)
    /\ ret' = IF io THEN Caught([kind |-> "list", val |-> <<>>])
              ELSE [kind |-> "list", val |-> History(chat, session, limit)]
    /\ log' = IF io THEN ErrorLog ELSE NoLog
    /\ UNCHANGED chat

\* clear_chat_history(session_id): the count is printed, nothing is returned.
clear_chat_history(session, io) ==
    LET kept == DeleteSession(chat, session) IN
    /\ ChatCall("clear", ~io, <<session>>)
    /\ chat' = IF io THEN chat ELSE kept
    /\ ret' = IF io THEN Caught(NoneRet) ELSE NoneRet
    /\ log' = IF io THEN ErrorLog
              ELSE [msg |-> "cleaned", n |-> Len(chat) - Len(kept), m |-> 0]

\* POST /api/chat for a session.  path is "empty" (a blank message: 400, and
\* nothing is read or saved), "enhanced" (the prompt of
\* _build_smart_chat_prompt is answered), "fallback" (the enhanced response
\* raises and generate_chat_response answers the prompt of _build_chat_prompt)
\* or "read_error" (get_recent_chat_context fails and returns []).  The result
\* is the history the answered prompt holds; the exchange is then saved.
api_chat(session, path) ==
    LET chat_history == IF path = "read_error" THEN <<>>
                        ELSE RecentContext(chat, session, ContextLimit)
        prompt == IF path = "fallback" THEN LastOf(chat_history, FallbackLimit)
                  ELSE LastOf(chat_history, PromptLimit)
    IN  /\ ChatCall("chat", path \in {"enhanced", "fallback"}, <<session, path>>)
        /\ chat' = IF path = "empty" THEN chat ELSE Append(chat, NewMessage(session))
        /\ ret' = IF path = "empty" THEN [kind |-> "error", val |-> <<>>]
                  ELSE [kind |-> "list", val |-> prompt]
        /\ log' = IF path = "read_error" THEN ErrorLog ELSE NoLog

InitChat == \E c \in ChatTables : Boot({}, c, Unreachable, Offline)

NextChat ==
    \/ \E session \in Sessions, ok \in BOOLEAN : save_chat_message(session, ok)
    \/ \E session \in Sessions, limit \in {2, HistoryLimit}, io \in BOOLEAN :
           get_chat_history(session, limit, io)
    \/ \E session \in Sessions, io \in BOOLEAN : clear_chat_history(session, io)
    \/ \E session \in Sessions, path \in {"empty", "enhanced", "fallback", "read_error"} :
           api_chat(session, path)

SpecChat == InitChat /\ [][NextChat]_vars

\* The rows of a session in the order they were saved, as dicts.
Saved(c, session) == Dicts(OfSession(c, session))

\* The dict d is in the list l.
Included(d, l) == \E i \in 1..Len(l) : l[i] = d

\* C29: the history in the prompt of the /api/chat flow
\* (get_recent_chat_context, then the slice "last 10 messages") is the most
\* recent exchanges of the session: the exchange saved last is always in it,
\* and no exchange in it is older than one that is left out.
C29_PromptHoldsMostRecent ==
    (op.name = "chat" /\ op.recs[2] = "enhanced") =>
        LET saved == Saved(prechat, op.recs[1]) IN
        /\ Len(saved) > 0 => Included(saved[Len(saved)], ret.val)
        /\ \A i \in 1..Len(saved), j \in 1..Len(saved) :
               (i < j /\ Included(saved[i], ret.val)) => Included(saved[j], ret.val)

\* What the code does: get_recent_chat_context returns the 15 rows saved last,
\* the latest first, and the slice [-10:] keeps the end of that list, so the
\* prompt holds the 10 oldest of the 15 latest; rows saved within the same
\* second come in the order they were saved, and of more than 15 of them the
\* prompt holds the 6th to the 15th.  A session of at most 10 exchanges is
\* in the prompt whole.
C29_PromptHoldsOldestOfRecent ==
    (op.name = "chat" /\ op.recs[2] = "enhanced") =>
        LET saved == Saved(prechat, op.recs[1])
            n == Len(saved)
            tied == \A i \in 1..n : saved[i].created_at = saved[1].created_at
            distinct == \A i \in 1..n, j \in 1..n :
                            i < j => saved[i].created_at < saved[j].created_at
        IN  /\ Len(ret.val) = IF n < PromptLimit THEN n ELSE PromptLimit
            /\ n <= PromptLimit => \A i \in 1..n : Included(saved[i], ret.val)
            /\ (n > PromptLimit /\ distinct /\ n <= ContextLimit) =>
                   \A i \in 1..n : Included(saved[i], ret.val) <=> i <= PromptLimit
            /\ (n > ContextLimit /\ distinct) =>
                   \A i \in 1..n :
                       Included(saved[i], ret.val) <=>
                           (i > n - ContextLimit /\ i <= n - ContextLimit + PromptLimit)
            /\ (n > ContextLimit /\ tied) =>
                   \A i \in 1..n :
                       Included(saved[i], ret.val) <=>
                           (i > ContextLimit - PromptLimit /\ i <= ContextLimit)

\* C30: chat-session isolation.  save_chat_message(s, ...) and
\* clear_chat_history(s) change only rows of session s: for every other
\* session t the rows, and so the result of get_chat_history(t), are the same
\* before and after.  get_chat_history(s) returns the messages of s in the
\* order they were saved (the first limit of them, 100 by default), and after
\* clear_chat_history(s) it returns the empty list.
C30_SessionIsolation ==
    /\ op.name \in {"save", "clear", "chat"} =>
           \A t \in Sessions \ {op.recs[1]} :
               /\ OfSession(chat, t) = OfSession(prechat, t)
               /\ \A limit \in {2, HistoryLimit} :
                      History(chat, t, limit) = History(prechat, t, limit)
    /\ (op.name = "save" /\ op.ok) =>
           /\ Len(chat) = Len(prechat) + 1
           /\ SubSeq(chat, 1, Len(prechat)) = prechat
           /\ chat[Len(chat)].session_id = op.recs[1]
    /\ (op.name = "history" /\ op.ok) =>
           LET saved == Saved(chat, op.recs[1])
               n == IF Len(saved) < op.recs[2] THEN Len(saved) ELSE op.recs[2]
           IN  /\ chat = prechat
               /\ ret.kind = "list"
               /\ ret.val = SubSeq(saved, 1, n)
    /\ (op.name = "clear" /\ op.ok) =>
           /\ OfSession(chat, op.recs[1]) = <<>>
           /\ \A limit \in {2, HistoryLimit} : History(chat, op.recs[1], limit) = <<>>

\* A session that held messages next to those of another session has been
\* cleared, and the other session's messages are still there.
C30_Witness ==
    /\ op.name = "clear" /\ op.ok
    /\ Len(OfSession(prechat, op.recs[1])) > 2
    /\ \E t \in Sessions \ {op.recs[1]} : Len(OfSession(chat, t)) > 2

\* get_chat_history has returned the first two of a session's messages, which
\* were saved in the same second and after messages of the other session.
C30_WitnessHistory ==
    /\ op.name = "history" /\ op.ok /\ op.recs[2] = 2 /\ Len(ret.val) = 2
    /\ ret.val[1].created_at = ret.val[2].created_at
    /\ chat[1].session_id # op.recs[1]
    /\ Len(OfSession(chat, op.recs[1])) > 2
====
